---- MODULE Spec2Model ----
(***************************************************************************)
(* A model of cloudify/amqp_client.py: the AMQPConnection actor (connect,  *)
(* register pass, pump loop, outbound drain), the producers that hand it   *)
(* envelopes through channel_method, add_handler from a foreign thread,    *)
(* the TaskConsumer worker pool and the request/response handlers.         *)
(*                                                                         *)
(* SpecConn is the connection actor with its producers; SpecPool is one    *)
(* TaskConsumer with its semaphore, task buffer and worker threads;        *)
(* SpecStart is consume_in_thread with the actor it starts; SpecHosts is   *)
(* the actor with a list of broker hosts; SpecActorCalls adds              *)
(* channel_method calls made on the consumer thread; SpecBlockingRpc and   *)
(* SpecCallbackRpc are the two request/response handlers; SpecTimeout has   *)
(* producers whose waits time out; SpecStartRace has several threads in    *)
(* consume_in_thread at once; SpecOutage is the actor with no close();     *)
(* SpecPublisher is the CloudifyEventsPublisher with its callers;          *)
(* SpecWorkers is the pool with each worker's acks and reply as envelopes; *)
(* SpecBlockingRace is the blocking handler with process() in two steps.   *)
(***************************************************************************)
EXTENDS Integers, Sequences, FiniteSets, TLC

VARIABLES
    \* ---- AMQPConnection ----
    apc,              \* position of the consumer thread inside consume()
    closed,           \* self._closed
    pika,             \* self._pika_connection: 0 is None, n > 0 the n-th connection
    connAlive,        \* whether the broker still holds connection `pika` open
    outChannel,       \* the out_channel local of consume(): connection it belongs to
    backoff,          \* self._reconnect_backoff
    sleeps,           \* time.sleep() arguments since the last successful connect
    connect_timeout,  \* self._connect_timeout: <<>> is None, <<t>> is t seconds
    error,            \* self._error
    connect_wait,     \* self.connect_wait (threading.Event)
    queue,            \* self._connection_tasks_queue
    cur,              \* the envelope local of _process_publish
    requeued,         \* the envelope most recently put back after ConnectionClosed
    handlers,         \* self._handlers
    regIdx,           \* index of the `for handler in self._handlers` iteration
    regLog,           \* handlers registered on connection `pika`, in call order
    regTotal,         \* per handler, number of register calls that went through
    nConnects,        \* number of successful pika.BlockingConnection() calls
    hpc,              \* position of the foreign thread inside add_handler
    ppc,              \* per producer: "idle" or "waiting" on its err_queue
    nsub,             \* per producer: number of envelopes submitted
    errq,             \* per producer: contents of the err_queue of its envelope
    brokerLog,        \* envelopes the broker has executed, in order
    failedEnvs,       \* envelopes that ended with a non-connection error
    droppedEnvs,      \* envelopes discarded on ConnectionClosed while closed
    offlineSub,       \* wait=False envelopes submitted while no connection was stored
    consumer_thread,  \* whether self._consumer_thread holds a thread
    spc,              \* position of the caller inside consume_in_thread()
    startResult,      \* how the consume_in_thread() that made the thread ended
    startAgain,       \* how a further consume_in_thread() call ended
    hosts,            \* the hosts list of _get_connection_params, after the shuffle
    hostPos,          \* index into hosts of the host the generator yields next
    lastHosts,        \* hosts of the most recent connect attempts, oldest first
    nActorSub,        \* number of envelopes enqueued by the consumer thread itself
    actorCall,        \* the last channel_method call made on the consumer thread
    breakWaiters,     \* wait=True envelopes not yet answered when ChannelClosed ended the loop
    confirmOn,        \* out-channels on which confirm_delivery() was called
    \* ---- TaskConsumer ----
    sem,              \* value of self._sem
    tasks_buffer,     \* self._tasks_buffer
    dpc,              \* position of the connection thread inside process()
    dtag,             \* delivery tag process() is handling
    nDelivered,       \* number of deliveries handed to process()
    wpc,              \* per delivery tag: position of its worker thread
    late_ack,         \* the late_ack attribute of the consumer class
    ackEnqueued,      \* delivery tags whose basic_ack envelope was handed to ack()
    \* ---- request/response handlers ----
    response_queues,  \* BlockingRequestResponseHandler._response_queues
    bpc,              \* per blocking publish call: its position
    btimeout,         \* per blocking publish call: whether its timeout is finite
    bres,             \* per blocking publish call: the response it returned
    callbacks,        \* CallbackRequestResponseHandler._callbacks (its keys)
    cpc,              \* per callback publish call: its position
    cbInvoked,        \* per correlation id: number of times its callback ran
    nReplies,         \* number of deliveries handed to the process() methods
    \* ---- concurrent consume_in_thread() calls ----
    tpc,              \* per caller: its position inside consume_in_thread()
    nThreads,         \* number of threads created and started for consume()
    \* ---- CloudifyEventsPublisher ----
    is_closed,        \* self._is_closed
    clpc,             \* per caller of close(): its position
    nConnClose,       \* number of self._connection.close() calls
    mkind,            \* per caller of publish_message: its message_type
    mres,             \* per caller of publish_message: how its last call ended
    \* ---- TaskConsumer._process_message, call by call ----
    callState,        \* per delivery tag: state of the envelope its worker waits for
    result,           \* per delivery tag: the result local of _process_message
    replies,          \* per delivery tag: the reply envelopes its worker has published
    \* ---- BlockingRequestResponseHandler.process, step by step ----
    prpc,             \* position of the connection thread inside process()
    pcorr,            \* properties.correlation_id of the delivery in process()
    keyError          \* whether the table lookup of process() has raised KeyError

startVars == <<consumer_thread, spc, startResult, startAgain>>

hostVars == <<hosts, hostPos, lastHosts>>

actorVars == <<nActorSub, actorCall>>

exitVars == <<breakWaiters>>

chanVars == <<confirmOn>>

connVars == <<apc, closed, pika, connAlive, outChannel, backoff, sleeps,
              connect_timeout, error, connect_wait, queue, cur, requeued,
              handlers, regIdx, regLog, regTotal, nConnects, hpc, ppc, nsub,
              errq, brokerLog, failedEnvs, droppedEnvs, offlineSub,
              startVars, hostVars, actorVars, exitVars, chanVars>>

poolVars == <<sem, tasks_buffer, dpc, dtag, nDelivered, wpc, late_ack,
              ackEnqueued>>

rpcVars == <<response_queues, bpc, btimeout, bres, callbacks, cpc, cbInvoked, nReplies>>

raceVars == <<tpc, nThreads>>

pubVars == <<is_closed, clpc, nConnClose, mkind, mres>>

workVars == <<callState, result, replies>>

procVars == <<prpc, pcorr, keyError>>

vars == <<connVars, poolVars, rpcVars, raceVars, pubVars, workVars, procVars>>

----------------------------------------------------------------------------
(* Bounds of the model *)

\* envelopes each producer submits
MaxMsgs == 2
\* successful connects (the initial one and the reconnects)
MaxConnects == 3
\* consecutive failed connect attempts, where the backoff is followed
MaxFails == 7
\* consecutive failed connect attempts, where envelopes or handlers are followed
MaxShortFails == 2
\* threadpool_size of the TaskConsumer
PoolSize == 2
\* deliveries the broker hands to TaskConsumer.process
MaxDeliveries == 4

\* broker hosts of a client that is given a list of hosts
NumHosts == 3

\* publish calls made on each request/response handler
MaxCalls == 2

\* responses the broker delivers to the request/response handlers
MaxReplies == 3

----------------------------------------------------------------------------
(* Program constants *)

MAX_BACKOFF == 30

DefaultConnectTimeout == 10

InitialBackoff == 1

----------------------------------------------------------------------------
(* Helpers *)

Min(a, b) == IF a <= b THEN a ELSE b

RECURSIVE SumSeq(_)
SumSeq(s) == IF s = <<>> THEN 0 ELSE Head(s) + SumSeq(Tail(s))

Range(s) == {s[i] : i \in 1..Len(s)}

Front(s) == SubSeq(s, 1, Len(s) - 1)

RECURSIVE SelectSeqBy(_, _)
\* the subsequence of s whose elements lie in the set S
SelectSeqBy(s, S) ==
    IF s = <<>> THEN <<>>
    ELSE IF Head(s) \in S THEN <<Head(s)>> \o SelectSeqBy(Tail(s), S)
    ELSE SelectSeqBy(Tail(s), S)

IsPrefix(s, t) == Len(s) <= Len(t) /\ \A i \in 1..Len(s) : s[i] = t[i]

Count(s, x) == Cardinality({i \in 1..Len(s) : s[i] = x})

----------------------------------------------------------------------------
(* Producers and envelopes *)

\* p1 calls channel_method(wait=True, timeout=None), p2 calls it with wait=False
Producers == {"p1", "p2"}

\* the threads that call consume_in_thread() at the same time
Starters == {"t1", "t2"}

\* the threads that call CloudifyEventsPublisher.close()
Closers == {"k1", "k2"}

WaitFlag(p) == p = "p1"

\* a channel_method that never creates an err_queue, so that no caller blocks
ProducerBlocksNever(w) == FALSE

\* err_queue = Queue.Queue() if wait else None; the caller blocks on it
ProducerBlocks(w) == w

\* the channel of a consumer, as ack() passes it to channel_method; 0 stands
\* for channel=None and the positive numbers for the out-channels
ConsumerChannel == 0 - 1

\* the channel argument of a call: every second call of a producer is an
\* ack on the channel of a consumer, the others are publishes with no channel
ChannelArg(n) == IF n % 2 = 0 THEN ConsumerChannel ELSE 0

\* the envelope dict of channel_method; `wait` says whether it has an err_queue
Envelope(p, n) ==
    [prod |-> p, seq |-> n, wait |-> ProducerBlocks(WaitFlag(p)),
     channel |-> ChannelArg(n)]

NoEnv == [prod |-> "none", seq |-> 0, wait |-> FALSE, channel |-> 0]

\* a _process_publish that invokes every envelope on the out-channel
TargetChannelShared(e, out) == out

\* target_channel = envelope['channel'] or channel
TargetChannel(e, out) == IF e.channel # 0 THEN e.channel ELSE out

\* out_channel.confirm_delivery() on the out-channel of connection k
ConfirmDelivery(on, k) == on \cup {k}

\* the handlers given to the constructor, and the one add_handler appends
InitHandlers == <<"h1", "h2">>

AddedHandler == "h3"

AllHandlers == Range(InitHandlers) \cup {AddedHandler}

----------------------------------------------------------------------------
(* AMQPConnection: backoff *)

\* a backoff that doubles without the cap
NextBackoffUncapped(b) == b * 2

\* self._reconnect_backoff = min(backoff * 2, self.MAX_BACKOFF)
NextBackoff(b) == Min(b * 2, MAX_BACKOFF)

----------------------------------------------------------------------------
(* AMQPConnection: _get_connection_params() *)

\* the orders random.shuffle(hosts) can leave a list of NumHosts hosts in
ShuffledHosts ==
    {s \in [1..NumHosts -> 1..NumHosts] : Range(s) = 1..NumHosts}

\* a generator that starts the list again after every host it has yielded
NextHostPosRestart(pos, n) == 1

\* `while True: for host in hosts: ... yield params`: the position after the
\* host at pos has been yielded
NextHostPos(pos, n) == (pos % n) + 1

\* params = next(self._connection_params): the host of this attempt is
\* hosts[hostPos]; lastHosts keeps the hosts of the last Len(hosts) attempts
NextHost ==
    /\ hostPos' = NextHostPos(hostPos, Len(hosts))
    /\ lastHosts' = LET w == Append(lastHosts, hosts[hostPos])
                    IN  IF Len(w) > Len(hosts) THEN Tail(w) ELSE w
    /\ UNCHANGED hosts

----------------------------------------------------------------------------
(* AMQPConnection: the connect deadline *)

\* a deadline that is looked at before the sleep instead of after it
DeadlineExpiredBeforeSleep(s) ==
    /\ connect_timeout # <<>>
    /\ SumSeq(Front(s)) > connect_timeout[1]

\* deadline and time.time() > deadline, after the sleeps in s; a refused
\* connection attempt itself takes no time
DeadlineExpired(s) ==
    /\ connect_timeout # <<>>
    /\ SumSeq(s) > connect_timeout[1]

----------------------------------------------------------------------------
(* AMQPConnection: initial state *)

\* __init__
InitActor ==
    /\ closed = FALSE
    /\ pika = 0
    /\ connAlive = FALSE
    /\ outChannel = 0
    /\ backoff = InitialBackoff
    /\ sleeps = <<>>
    /\ connect_timeout \in {<<>>, <<DefaultConnectTimeout>>}
    /\ error = "None"
    /\ connect_wait = FALSE
    /\ queue = <<>>
    /\ cur = NoEnv
    /\ requeued = NoEnv
    /\ handlers = InitHandlers
    /\ regIdx = 1
    /\ regLog = <<>>
    /\ regTotal = [h \in AllHandlers |-> 0]
    /\ nConnects = 0
    /\ hpc = "idle"
    /\ ppc = [p \in Producers |-> "idle"]
    /\ nsub = [p \in Producers |-> 0]
    /\ errq = [p \in Producers |-> <<>>]
    /\ brokerLog = <<>>
    /\ failedEnvs = {}
    /\ droppedEnvs = {}
    /\ offlineSub = {}
    /\ breakWaiters = {}
    /\ confirmOn = {}

\* no channel_method call has been made on the consumer thread
NoCall == [wait |-> FALSE, raised |-> FALSE, before |-> <<>>, after |-> <<>>]

InitActorCalls ==
    /\ nActorSub = 0
    /\ actorCall = NoCall

\* consume_in_thread() has stored the thread in _consumer_thread and started
\* it; the thread is at the top of consume() and the caller waits for
\* connect_wait
InitStarted ==
    /\ apc = "connect"
    /\ consumer_thread = TRUE
    /\ spc = "wait"
    /\ startResult = "none"
    /\ startAgain = "none"

\* amqp_host is a single host name: hosts = [hosts]
InitSingleHost ==
    /\ hosts = <<1>>
    /\ hostPos = 1
    /\ lastHosts = <<>>

\* a client with one broker host whose consumer thread has just been started
\* no consume_in_thread() call is under way
InitRace ==
    /\ tpc = [c \in Starters |-> "idle"]
    /\ nThreads = 0

\* CloudifyEventsPublisher.__init__: self._is_closed = False
InitPublisher ==
    /\ is_closed = FALSE
    /\ clpc = [c \in Closers |-> "idle"]
    /\ nConnClose = 0
    /\ mkind = [p \in Producers |-> "none"]
    /\ mres = [p \in Producers |-> "none"]

InitConnVars ==
    /\ InitActor
    /\ InitStarted
    /\ InitSingleHost
    /\ InitActorCalls
    /\ InitRace
    /\ InitPublisher

----------------------------------------------------------------------------
(* AMQPConnection: connect() *)

\* the except-clause of consume(): connect_wait.clear(), then the first
\* statements of connect()
EnterConnect ==
    /\ apc' = "connect"
    /\ connect_wait' = FALSE
    /\ error' = "None"
    /\ pika' = 0

\* pika.BlockingConnection(params) raises AMQPConnectionError: sleep for the
\* backoff, then raise if the deadline has passed
ConnectFailWithin(n) ==
    /\ apc = "connect"
    /\ Len(sleeps) < n
    /\ sleeps' = Append(sleeps, backoff)
    /\ backoff' = NextBackoff(backoff)
    /\ IF DeadlineExpired(sleeps')
       THEN /\ apc' = "dead"
            /\ error' = "AMQPConnectionError"
            /\ connect_wait' = TRUE
       ELSE UNCHANGED <<apc, error, connect_wait>>
    /\ UNCHANGED <<closed, pika, connAlive, outChannel, connect_timeout, queue,
                   cur, requeued, handlers, regIdx, regLog, regTotal, nConnects,
                   hpc, ppc, nsub, errq, brokerLog, failedEnvs, droppedEnvs>>
    /\ NextHost
    /\ UNCHANGED <<offlineSub, startVars, actorVars, exitVars, chanVars>>
    /\ UNCHANGED <<poolVars, rpcVars, raceVars, pubVars, workVars, procVars>>

\* a failed attempt in the runs that follow the backoff through its cap
ConnectFail ==
    /\ apc = "connect"
    /\ ConnectFailWithin(MaxFails)

\* a failed attempt in the runs that follow the envelopes and the handlers
ConnectFailShort ==
    /\ apc = "connect"
    /\ ConnectFailWithin(MaxShortFails)

\* pika.BlockingConnection(params) succeeds: _reset_reconnect_backoff(),
\* self._closed = False, and the connection is stored in _pika_connection
ConnectOk ==
    /\ apc = "connect"
    /\ nConnects < MaxConnects
    /\ backoff' = InitialBackoff
    /\ sleeps' = <<>>
    /\ closed' = FALSE
    /\ nConnects' = nConnects + 1
    /\ pika' = nConnects + 1
    /\ connAlive' = TRUE
    /\ regLog' = <<>>
    /\ apc' = "channel"
    /\ UNCHANGED <<outChannel, connect_timeout, error, connect_wait, queue, cur,
                   requeued, handlers, regIdx, regTotal, hpc, ppc, nsub, errq,
                   brokerLog, failedEnvs, droppedEnvs>>
    /\ NextHost
    /\ UNCHANGED <<offlineSub, startVars, actorVars, exitVars, chanVars>>
    /\ UNCHANGED <<poolVars, rpcVars, raceVars, pubVars, workVars, procVars>>

\* out_channel = self._pika_connection.channel(); out_channel.confirm_delivery()
\* On a connection the broker has dropped this raises ConnectionClosed, which
\* nothing around connect() catches
OpenOutChannel ==
    /\ apc = "channel"
    /\ IF connAlive
       THEN /\ outChannel' = pika
            /\ confirmOn' = ConfirmDelivery(confirmOn, pika)
            /\ regIdx' = 1
            /\ apc' = "register"
       ELSE /\ apc' = "dead"
            /\ UNCHANGED <<outChannel, confirmOn, regIdx>>
    /\ UNCHANGED <<closed, pika, connAlive, backoff, sleeps, connect_timeout,
                   error, connect_wait, queue, cur, requeued, handlers, regLog,
                   regTotal, nConnects, hpc, ppc, nsub, errq, brokerLog,
                   failedEnvs, droppedEnvs>>
    /\ UNCHANGED <<offlineSub, startVars, hostVars, actorVars, exitVars>>
    /\ UNCHANGED <<poolVars, rpcVars, raceVars, pubVars, workVars, procVars>>

\* handler.register(connection) as the handlers of this file do it: it opens a
\* channel with connection.channel(), which raises RuntimeError when _closed
\* or no connection is stored, and ConnectionClosed on a dropped connection
RegisterGoesThrough == ~closed /\ pika # 0 /\ connAlive

\* one iteration of `for handler in self._handlers: handler.register(self)`
RegisterNext ==
    /\ apc = "register"
    /\ regIdx <= Len(handlers)
    /\ IF RegisterGoesThrough
       THEN /\ regLog' = Append(regLog, handlers[regIdx])
            /\ regTotal' = [regTotal EXCEPT ![handlers[regIdx]] = @ + 1]
            /\ regIdx' = regIdx + 1
            /\ apc' = apc
       ELSE /\ apc' = "dead"
            /\ UNCHANGED <<regLog, regTotal, regIdx>>
    /\ UNCHANGED <<closed, pika, connAlive, outChannel, backoff, sleeps,
                   connect_timeout, error, connect_wait, queue, cur, requeued,
                   handlers, nConnects, hpc, ppc, nsub, errq, brokerLog,
                   failedEnvs, droppedEnvs>>
    /\ UNCHANGED <<offlineSub, startVars, hostVars, actorVars, exitVars, chanVars>>
    /\ UNCHANGED <<poolVars, rpcVars, raceVars, pubVars, workVars, procVars>>

\* a connect() whose `return` sits inside the loop over the handlers
RegisterDoneEarly ==
    /\ apc = "register"
    /\ regIdx > 1
    /\ connect_wait' = TRUE
    /\ apc' = "pump"
    /\ UNCHANGED <<closed, pika, connAlive, outChannel, backoff, sleeps,
                   connect_timeout, error, queue, cur, requeued, handlers,
                   regIdx, regLog, regTotal, nConnects, hpc, ppc, nsub, errq,
                   brokerLog, failedEnvs, droppedEnvs>>
    /\ UNCHANGED <<offlineSub, startVars, hostVars, actorVars, exitVars, chanVars>>
    /\ UNCHANGED <<poolVars, rpcVars, raceVars, pubVars, workVars, procVars>>

\* the loop over the handlers is exhausted: connect_wait.set(); return
RegisterDone ==
    /\ apc = "register"
    /\ regIdx > Len(handlers)
    /\ connect_wait' = TRUE
    /\ apc' = "pump"
    /\ UNCHANGED <<closed, pika, connAlive, outChannel, backoff, sleeps,
                   connect_timeout, error, queue, cur, requeued, handlers,
                   regIdx, regLog, regTotal, nConnects, hpc, ppc, nsub, errq,
                   brokerLog, failedEnvs, droppedEnvs>>
    /\ UNCHANGED <<offlineSub, startVars, hostVars, actorVars, exitVars, chanVars>>
    /\ UNCHANGED <<poolVars, rpcVars, raceVars, pubVars, workVars, procVars>>

----------------------------------------------------------------------------
(* AMQPConnection: consume(), the pump loop *)

\* `while not self._closed:` is left when _closed is set
PumpExit ==
    /\ apc = "pump"
    /\ closed
    /\ apc' = "final"
    /\ UNCHANGED <<closed, pika, connAlive, outChannel, backoff, sleeps,
                   connect_timeout, error, connect_wait, queue, cur, requeued,
                   handlers, regIdx, regLog, regTotal, nConnects, hpc, ppc,
                   nsub, errq, brokerLog, failedEnvs, droppedEnvs>>
    /\ UNCHANGED <<offlineSub, startVars, hostVars, actorVars, exitVars, chanVars>>
    /\ UNCHANGED <<poolVars, rpcVars, raceVars, pubVars, workVars, procVars>>

\* self._pika_connection.process_data_events(0.2) on a live connection
PumpEvents ==
    /\ apc = "pump"
    /\ ~closed
    /\ connAlive
    /\ apc' = "drain"
    /\ UNCHANGED <<closed, pika, connAlive, outChannel, backoff, sleeps,
                   connect_timeout, error, connect_wait, queue, cur, requeued,
                   handlers, regIdx, regLog, regTotal, nConnects, hpc, ppc,
                   nsub, errq, brokerLog, failedEnvs, droppedEnvs>>
    /\ UNCHANGED <<offlineSub, startVars, hostVars, actorVars, exitVars, chanVars>>
    /\ UNCHANGED <<poolVars, rpcVars, raceVars, pubVars, workVars, procVars>>

\* process_data_events raises ConnectionClosed: reconnect
PumpConnectionClosed ==
    /\ apc = "pump"
    /\ ~closed
    /\ ~connAlive
    /\ EnterConnect
    /\ UNCHANGED <<closed, connAlive, outChannel, backoff, sleeps,
                   connect_timeout, queue, cur, requeued, handlers, regIdx,
                   regLog, regTotal, nConnects, hpc, ppc, nsub, errq,
                   brokerLog, failedEnvs, droppedEnvs>>
    /\ UNCHANGED <<offlineSub, startVars, hostVars, actorVars, exitVars, chanVars>>
    /\ UNCHANGED <<poolVars, rpcVars, raceVars, pubVars, workVars, procVars>>

----------------------------------------------------------------------------
(* AMQPConnection: _process_publish(), the outbound drain *)

\* a drain that forgets the envelope instead of putting it back
RequeueLost(q, e) == q

\* self._connection_tasks_queue.put(envelope)
Requeue(q, e) == Append(q, e)

\* a _process_publish that puts its value on the err_queue twice
PutErrTwice(e, v) ==
    IF e.wait THEN [errq EXCEPT ![e.prod] = Append(Append(@, v), v)] ELSE errq

\* err_queue.put(v) when the envelope carries an err_queue
PutErr(e, v) ==
    IF e.wait THEN [errq EXCEPT ![e.prod] = Append(@, v)] ELSE errq

\* envelope = self._connection_tasks_queue.get_nowait() returns an envelope
PopAt(at, inv) ==
    /\ apc = at
    /\ queue # <<>>
    /\ cur' = Head(queue)
    /\ queue' = Tail(queue)
    /\ requeued' = IF requeued = Head(queue) THEN NoEnv ELSE requeued
    /\ apc' = inv
    /\ UNCHANGED <<closed, pika, connAlive, outChannel, backoff, sleeps,
                   connect_timeout, error, connect_wait, handlers, regIdx,
                   regLog, regTotal, nConnects, hpc, ppc, nsub, errq,
                   brokerLog, failedEnvs, droppedEnvs>>
    /\ UNCHANGED <<offlineSub, startVars, hostVars, actorVars, exitVars, chanVars>>
    /\ UNCHANGED <<poolVars, rpcVars, raceVars, pubVars, workVars, procVars>>

\* get_nowait() raises Queue.Empty: _process_publish returns
EmptyAt(at, back) ==
    /\ apc = at
    /\ queue = <<>>
    /\ apc' = back
    /\ UNCHANGED <<closed, pika, outChannel, backoff, sleeps,
                   connect_timeout, error, connect_wait, queue, cur, requeued,
                   handlers, regIdx, regLog, regTotal, nConnects, hpc, ppc,
                   nsub, errq, brokerLog, failedEnvs, droppedEnvs>>
    /\ UNCHANGED <<offlineSub, startVars, hostVars, actorVars, exitVars, chanVars>>
    /\ UNCHANGED <<poolVars, rpcVars, raceVars, pubVars, workVars, procVars>>

\* getattr(target_channel, method)(**message) returns: the broker has executed
\* the envelope; err_queue.put(None)
InvokeOkAt(inv, next) ==
    /\ apc = inv
    /\ TargetChannel(cur, outChannel) # 0
    /\ connAlive
    /\ brokerLog' = Append(brokerLog, cur)
    /\ errq' = PutErr(cur, "None")
    /\ cur' = NoEnv
    /\ apc' = next
    /\ UNCHANGED <<closed, pika, connAlive, outChannel, backoff, sleeps,
                   connect_timeout, error, connect_wait, queue, requeued,
                   handlers, regIdx, regLog, regTotal, nConnects, hpc, ppc,
                   nsub, failedEnvs, droppedEnvs>>
    /\ UNCHANGED <<offlineSub, startVars, hostVars, actorVars, exitVars, chanVars>>
    /\ UNCHANGED <<poolVars, rpcVars, raceVars, pubVars, workVars, procVars>>

\* the invocation raises an exception other than ConnectionClosed:
\* err_queue.put(e); raise. `next` is where consume() goes from there
InvokeErrorAt(inv, exc, next) ==
    /\ apc = inv
    /\ TargetChannel(cur, outChannel) # 0
    /\ connAlive
    /\ errq' = PutErr(cur, exc)
    /\ failedEnvs' = failedEnvs \cup {cur}
    /\ cur' = NoEnv
    /\ apc' = next
    /\ UNCHANGED <<closed, pika, connAlive, outChannel, backoff, sleeps,
                   connect_timeout, error, connect_wait, queue, requeued,
                   handlers, regIdx, regLog, regTotal, nConnects, hpc, ppc,
                   nsub, brokerLog, droppedEnvs>>
    /\ UNCHANGED <<offlineSub, startVars, hostVars, actorVars, chanVars>>
    /\ UNCHANGED <<poolVars, rpcVars, raceVars, pubVars, workVars, procVars>>

\* the invocation raises ConnectionClosed while _closed is set: return
InvokeClosedAt(inv, next) ==
    /\ apc = inv
    /\ ~connAlive
    /\ closed
    /\ droppedEnvs' = droppedEnvs \cup {cur}
    /\ cur' = NoEnv
    /\ apc' = next
    /\ UNCHANGED <<closed, pika, connAlive, outChannel, backoff, sleeps,
                   connect_timeout, error, connect_wait, queue, requeued,
                   handlers, regIdx, regLog, regTotal, nConnects, hpc, ppc,
                   nsub, errq, brokerLog, failedEnvs>>
    /\ UNCHANGED <<offlineSub, startVars, hostVars, actorVars, exitVars, chanVars>>
    /\ UNCHANGED <<poolVars, rpcVars, raceVars, pubVars, workVars, procVars>>

\* the invocation raises ConnectionClosed while _closed is not set: the
\* envelope is put back into the queue and the exception raised again
InvokeRequeue ==
    /\ ~connAlive
    /\ ~closed
    /\ queue' = Requeue(queue, cur)
    /\ requeued' = cur
    /\ cur' = NoEnv
    /\ UNCHANGED <<closed, connAlive, outChannel, backoff, sleeps,
                   connect_timeout, handlers, regIdx, regLog, regTotal,
                   nConnects, hpc, ppc, nsub, errq, brokerLog, failedEnvs,
                   droppedEnvs>>
    /\ UNCHANGED <<offlineSub, startVars, hostVars, actorVars, exitVars, chanVars>>
    /\ UNCHANGED <<poolVars, rpcVars, raceVars, pubVars, workVars, procVars>>

\* ---- inside the pump loop ----

DrainPop ==
    /\ apc = "drain"
    /\ PopAt("drain", "invoke")

DrainEmpty ==
    /\ apc = "drain"
    /\ EmptyAt("drain", "pump")
    /\ UNCHANGED connAlive

DrainInvokeOk ==
    /\ apc = "invoke"
    /\ InvokeOkAt("invoke", "drain")

\* the envelopes whose caller is blocked on their err_queue at the moment
\* an invocation raises: the one being invoked and those still queued
Unanswered == {e \in {cur} \cup Range(queue) : e.wait}

\* a consume() that goes on with the loop after ChannelClosed
DrainInvokeChannelClosedContinues ==
    /\ apc = "invoke"
    /\ InvokeErrorAt("invoke", "ChannelClosed", "pump")
    /\ breakWaiters' = Unanswered

\* except pika.exceptions.ChannelClosed: break
DrainInvokeChannelClosed ==
    /\ apc = "invoke"
    /\ InvokeErrorAt("invoke", "ChannelClosed", "final")
    /\ breakWaiters' = Unanswered

\* any other exception leaves consume() and ends the thread
DrainInvokeError ==
    /\ apc = "invoke"
    /\ InvokeErrorAt("invoke", "Exception", "dead")
    /\ UNCHANGED exitVars

\* _process_publish returned; the loop condition is evaluated next
DrainInvokeClosed ==
    /\ apc = "invoke"
    /\ InvokeClosedAt("invoke", "pump")

\* except pika.exceptions.ConnectionClosed: reconnect
DrainInvokeConnectionClosed ==
    /\ apc = "invoke"
    /\ InvokeRequeue
    /\ EnterConnect

\* ---- after the pump loop: self._process_publish(out_channel), then
\* ---- self._pika_connection.close()

FinalPop ==
    /\ apc = "final"
    /\ PopAt("final", "finvoke")

\* the final drain returns and the connection is closed
FinalEmpty ==
    /\ apc = "final"
    /\ EmptyAt("final", "done")
    /\ connAlive' = FALSE

FinalInvokeOk ==
    /\ apc = "finvoke"
    /\ InvokeOkAt("finvoke", "final")

\* no handler surrounds the final drain: every exception ends the thread
FinalInvokeError ==
    /\ apc = "finvoke"
    /\ \E exc \in {"ChannelClosed", "Exception"} :
           InvokeErrorAt("finvoke", exc, "dead")
    /\ UNCHANGED exitVars

\* the final drain returns and the connection is closed
FinalInvokeClosed ==
    /\ apc = "finvoke"
    /\ InvokeClosedAt("finvoke", "done")

FinalInvokeConnectionClosed ==
    /\ apc = "finvoke"
    /\ InvokeRequeue
    /\ apc' = "dead"
    /\ UNCHANGED <<pika, error, connect_wait>>

----------------------------------------------------------------------------
(* AMQPConnection: consume_in_thread() *)

\* consume_in_thread with no thread stored: the thread is created, stored in
\* _consumer_thread and started, and the caller goes on to wait_for_event
StartSpawn ==
    /\ spc = "idle"
    /\ ~consumer_thread
    /\ apc = "new"
    /\ consumer_thread' = TRUE
    /\ apc' = "connect"
    /\ spc' = "wait"
    /\ UNCHANGED <<closed, pika, connAlive, outChannel, backoff, sleeps,
                   connect_timeout, error, connect_wait, queue, cur, requeued,
                   handlers, regIdx, regLog, regTotal, nConnects, hpc, ppc,
                   nsub, errq, brokerLog, failedEnvs, droppedEnvs>>
    /\ UNCHANGED <<offlineSub, startResult, startAgain, hostVars, actorVars, exitVars, chanVars>>
    /\ UNCHANGED <<poolVars, rpcVars, raceVars, pubVars, workVars, procVars>>

\* wait_for_event(self.connect_wait) returns once it finds the event set
StartObserve ==
    /\ spc = "wait"
    /\ connect_wait
    /\ spc' = "check"
    /\ UNCHANGED <<apc, closed, pika, connAlive, outChannel, backoff, sleeps,
                   connect_timeout, error, connect_wait, queue, cur, requeued,
                   handlers, regIdx, regLog, regTotal, nConnects, hpc, ppc,
                   nsub, errq, brokerLog, failedEnvs, droppedEnvs>>
    /\ UNCHANGED <<offlineSub, consumer_thread, startResult, startAgain,
                   hostVars, actorVars, exitVars, chanVars>>
    /\ UNCHANGED <<poolVars, rpcVars, raceVars, pubVars, workVars, procVars>>

\* if self._error is not None: raise self._error; return self._consumer_thread
StartCheck ==
    /\ spc = "check"
    /\ startResult' = IF error # "None" THEN "raised" ELSE "returned"
    /\ spc' = "idle"
    /\ UNCHANGED <<apc, closed, pika, connAlive, outChannel, backoff, sleeps,
                   connect_timeout, error, connect_wait, queue, cur, requeued,
                   handlers, regIdx, regLog, regTotal, nConnects, hpc, ppc,
                   nsub, errq, brokerLog, failedEnvs, droppedEnvs>>
    /\ UNCHANGED <<offlineSub, consumer_thread, startAgain, hostVars,
                   actorVars, exitVars, chanVars>>
    /\ UNCHANGED <<poolVars, rpcVars, raceVars, pubVars, workVars, procVars>>

\* consume_in_thread called by several threads at once: the test
\* `if self._consumer_thread: return` of one call
StartTest(c) ==
    /\ tpc[c] = "idle"
    /\ tpc' = [tpc EXCEPT ![c] = IF consumer_thread THEN "skipped" ELSE "create"]
    /\ UNCHANGED nThreads
    /\ UNCHANGED <<apc, closed, pika, connAlive, outChannel, backoff, sleeps,
                   connect_timeout, error, connect_wait, queue, cur, requeued,
                   handlers, regIdx, regLog, regTotal, nConnects, hpc, ppc,
                   nsub, errq, brokerLog, failedEnvs, droppedEnvs>>
    /\ UNCHANGED <<offlineSub, startVars, hostVars, actorVars, exitVars, chanVars>>
    /\ UNCHANGED <<poolVars, rpcVars, pubVars, workVars, procVars>>

\* the call has passed the test: it creates a thread for consume(), stores it
\* in _consumer_thread and starts it. The model follows the thread started
\* first and counts the others
StartCreate(c) ==
    /\ tpc[c] = "create"
    /\ consumer_thread' = TRUE
    /\ nThreads' = nThreads + 1
    /\ apc' = IF apc = "new" THEN "connect" ELSE apc
    /\ tpc' = [tpc EXCEPT ![c] = "wait"]
    /\ UNCHANGED <<closed, pika, connAlive, outChannel, backoff, sleeps,
                   connect_timeout, error, connect_wait, queue, cur, requeued,
                   handlers, regIdx, regLog, regTotal, nConnects, hpc, ppc,
                   nsub, errq, brokerLog, failedEnvs, droppedEnvs>>
    /\ UNCHANGED <<offlineSub, spc, startResult, startAgain, hostVars,
                   actorVars, exitVars, chanVars>>
    /\ UNCHANGED <<poolVars, rpcVars, pubVars, workVars, procVars>>

\* wait_for_event(self.connect_wait) returns; self._error is raised if set
StartWaited(c) ==
    /\ tpc[c] = "wait"
    /\ connect_wait
    /\ tpc' = [tpc EXCEPT ![c] = IF error # "None" THEN "raised" ELSE "returned"]
    /\ UNCHANGED nThreads
    /\ UNCHANGED <<apc, closed, pika, connAlive, outChannel, backoff, sleeps,
                   connect_timeout, error, connect_wait, queue, cur, requeued,
                   handlers, regIdx, regLog, regTotal, nConnects, hpc, ppc,
                   nsub, errq, brokerLog, failedEnvs, droppedEnvs>>
    /\ UNCHANGED <<offlineSub, startVars, hostVars, actorVars, exitVars, chanVars>>
    /\ UNCHANGED <<poolVars, rpcVars, pubVars, workVars, procVars>>

\* consume_in_thread called once more, by the same caller after its first
\* call has ended or by another thread: if self._consumer_thread: return
StartAgain ==
    /\ consumer_thread
    /\ startAgain = "none"
    /\ startAgain' = "skipped"
    /\ UNCHANGED <<apc, closed, pika, connAlive, outChannel, backoff, sleeps,
                   connect_timeout, error, connect_wait, queue, cur, requeued,
                   handlers, regIdx, regLog, regTotal, nConnects, hpc, ppc,
                   nsub, errq, brokerLog, failedEnvs, droppedEnvs>>
    /\ UNCHANGED <<offlineSub, consumer_thread, spc, startResult, hostVars,
                   actorVars, exitVars, chanVars>>
    /\ UNCHANGED <<poolVars, rpcVars, raceVars, pubVars, workVars, procVars>>

----------------------------------------------------------------------------
(* The broker and the foreign threads *)

\* the broker, or the network, drops the connection
BrokerDrop ==
    /\ connAlive
    /\ connAlive' = FALSE
    /\ UNCHANGED <<apc, closed, pika, outChannel, backoff, sleeps,
                   connect_timeout, error, connect_wait, queue, cur, requeued,
                   handlers, regIdx, regLog, regTotal, nConnects, hpc, ppc,
                   nsub, errq, brokerLog, failedEnvs, droppedEnvs>>
    /\ UNCHANGED <<offlineSub, startVars, hostVars, actorVars, exitVars, chanVars>>
    /\ UNCHANGED <<poolVars, rpcVars, raceVars, pubVars, workVars, procVars>>

\* close(): self._closed = True
Close ==
    /\ ~closed
    /\ closed' = TRUE
    /\ UNCHANGED <<apc, pika, connAlive, outChannel, backoff, sleeps,
                   connect_timeout, error, connect_wait, queue, cur, requeued,
                   handlers, regIdx, regLog, regTotal, nConnects, hpc, ppc,
                   nsub, errq, brokerLog, failedEnvs, droppedEnvs>>
    /\ UNCHANGED <<offlineSub, startVars, hostVars, actorVars, exitVars, chanVars>>
    /\ UNCHANGED <<poolVars, rpcVars, raceVars, pubVars, workVars, procVars>>

\* channel_method from a thread other than the consumer thread: the envelope
\* is put into the queue; with an err_queue the caller then blocks on it
Submit(p) ==
    /\ ppc[p] = "idle"
    /\ nsub[p] < MaxMsgs
    /\ LET e == Envelope(p, nsub[p] + 1) IN
        /\ queue' = Append(queue, e)
        /\ ppc' = [ppc EXCEPT ![p] = IF e.wait THEN "waiting" ELSE "idle"]
    /\ nsub' = [nsub EXCEPT ![p] = @ + 1]
    /\ offlineSub' = IF pika = 0 /\ ~WaitFlag(p)
                      THEN offlineSub \cup {Envelope(p, nsub[p] + 1)}
                      ELSE offlineSub
    /\ UNCHANGED <<apc, closed, pika, connAlive, outChannel, backoff, sleeps,
                   connect_timeout, error, connect_wait, cur, requeued,
                   handlers, regIdx, regLog, regTotal, nConnects, hpc, errq,
                   brokerLog, failedEnvs, droppedEnvs>>
    /\ UNCHANGED <<startVars, hostVars, actorVars, exitVars, chanVars>>
    /\ UNCHANGED <<poolVars, rpcVars, raceVars, pubVars, workVars, procVars>>

\* err = err_queue.get(timeout=None) returns; an exception instance is raised
\* in the caller
Receive(p) ==
    /\ ppc[p] = "waiting"
    /\ errq[p] # <<>>
    /\ errq' = [errq EXCEPT ![p] = Tail(@)]
    /\ ppc' = [ppc EXCEPT ![p] = "idle"]
    /\ UNCHANGED <<apc, closed, pika, connAlive, outChannel, backoff, sleeps,
                   connect_timeout, error, connect_wait, queue, cur, requeued,
                   handlers, regIdx, regLog, regTotal, nConnects, hpc, nsub,
                   brokerLog, failedEnvs, droppedEnvs>>
    /\ UNCHANGED <<offlineSub, startVars, hostVars, actorVars, exitVars, chanVars>>
    /\ UNCHANGED <<poolVars, rpcVars, raceVars, pubVars, workVars, procVars>>

\* a channel_method that takes its envelope back when the get times out
GetTimeoutWithdraws(p) ==
    /\ ppc[p] = "waiting"
    /\ errq[p] = <<>>
    /\ ppc' = [ppc EXCEPT ![p] = "timedout"]
    /\ queue' = SelectSeqBy(queue, Range(queue) \ {Envelope(p, nsub[p])})
    /\ UNCHANGED <<apc, closed, pika, connAlive, outChannel, backoff, sleeps,
                   connect_timeout, error, connect_wait, cur, requeued,
                   handlers, regIdx, regLog, regTotal, nConnects, hpc, nsub,
                   errq, brokerLog, failedEnvs, droppedEnvs>>
    /\ UNCHANGED <<offlineSub, startVars, hostVars, actorVars, exitVars, chanVars>>
    /\ UNCHANGED <<poolVars, rpcVars, raceVars, pubVars, workVars, procVars>>

\* err_queue.get(timeout=timeout) with a finite timeout finds the err_queue
\* empty when the time is over: Queue.Empty is raised in the caller, and
\* channel_method does nothing else
GetTimeout(p) ==
    /\ ppc[p] = "waiting"
    /\ errq[p] = <<>>
    /\ ppc' = [ppc EXCEPT ![p] = "timedout"]
    /\ UNCHANGED <<apc, closed, pika, connAlive, outChannel, backoff, sleeps,
                   connect_timeout, error, connect_wait, queue, cur, requeued,
                   handlers, regIdx, regLog, regTotal, nConnects, hpc, nsub,
                   errq, brokerLog, failedEnvs, droppedEnvs>>
    /\ UNCHANGED <<offlineSub, startVars, hostVars, actorVars, exitVars, chanVars>>
    /\ UNCHANGED <<poolVars, rpcVars, raceVars, pubVars, workVars, procVars>>

\* a channel_method without the check of the calling thread
CannotWaitNever(w, ct, own) == FALSE

\* channel_method: if wait and self._consumer_thread and
\* self._consumer_thread is threading.current_thread(); ct says whether
\* _consumer_thread holds a thread, own whether the caller is that thread
CannotWait(w, ct, own) == w /\ ct /\ own

\* the envelope of a channel_method call made on the consumer thread
ActorEnvelope(n, w) ==
    [prod |-> "actor", seq |-> n, wait |-> ProducerBlocks(w), channel |-> 0]

\* channel_method called on the consumer thread, from a callback that runs
\* inside process_data_events: with wait it raises RuntimeError before the
\* envelope is built, and the callback either catches the error or lets it
\* end consume(); otherwise the envelope is put into the queue, and a caller
\* with an err_queue would then block on the thread that has to fill it
ActorChannelMethod(w, caught) ==
    /\ apc = "pump"
    /\ ~closed
    /\ connAlive
    /\ IF CannotWait(w, consumer_thread, TRUE)
       THEN /\ actorCall' = [wait |-> w, raised |-> TRUE,
                             before |-> queue, after |-> queue]
            /\ apc' = IF caught THEN apc ELSE "dead"
            /\ UNCHANGED <<queue, nActorSub>>
       ELSE /\ nActorSub < MaxMsgs
            /\ queue' = Append(queue, ActorEnvelope(nActorSub + 1, w))
            /\ nActorSub' = nActorSub + 1
            /\ actorCall' = [wait |-> w, raised |-> FALSE,
                             before |-> queue, after |-> queue']
            /\ apc' = IF ProducerBlocks(w) THEN "stuck" ELSE apc
    /\ UNCHANGED <<closed, pika, connAlive, outChannel, backoff, sleeps,
                   connect_timeout, error, connect_wait, cur, requeued,
                   handlers, regIdx, regLog, regTotal, nConnects, hpc, ppc,
                   nsub, errq, brokerLog, failedEnvs, droppedEnvs>>
    /\ UNCHANGED <<offlineSub, startVars, hostVars, exitVars, chanVars>>
    /\ UNCHANGED <<poolVars, rpcVars, raceVars, pubVars, workVars, procVars>>

\* add_handler: self._handlers.append(handler)
AddHandlerAppend ==
    /\ hpc = "idle"
    /\ handlers' = Append(handlers, AddedHandler)
    /\ hpc' = "check"
    /\ UNCHANGED <<apc, closed, pika, connAlive, outChannel, backoff, sleeps,
                   connect_timeout, error, connect_wait, queue, cur, requeued,
                   regIdx, regLog, regTotal, nConnects, ppc, nsub, errq,
                   brokerLog, failedEnvs, droppedEnvs>>
    /\ UNCHANGED <<offlineSub, startVars, hostVars, actorVars, exitVars, chanVars>>
    /\ UNCHANGED <<poolVars, rpcVars, raceVars, pubVars, workVars, procVars>>

\* add_handler: if self._pika_connection:
AddHandlerCheck ==
    /\ hpc = "check"
    /\ hpc' = IF pika # 0 THEN "register" ELSE "done"
    /\ UNCHANGED <<apc, closed, pika, connAlive, outChannel, backoff, sleeps,
                   connect_timeout, error, connect_wait, queue, cur, requeued,
                   handlers, regIdx, regLog, regTotal, nConnects, ppc, nsub,
                   errq, brokerLog, failedEnvs, droppedEnvs>>
    /\ UNCHANGED <<offlineSub, startVars, hostVars, actorVars, exitVars, chanVars>>
    /\ UNCHANGED <<poolVars, rpcVars, raceVars, pubVars, workVars, procVars>>

\* add_handler: handler.register(self), in the calling thread
AddHandlerRegister ==
    /\ hpc = "register"
    /\ hpc' = "done"
    /\ IF RegisterGoesThrough
       THEN /\ regLog' = Append(regLog, AddedHandler)
            /\ regTotal' = [regTotal EXCEPT ![AddedHandler] = @ + 1]
       ELSE UNCHANGED <<regLog, regTotal>>
    /\ UNCHANGED <<apc, closed, pika, connAlive, outChannel, backoff, sleeps,
                   connect_timeout, error, connect_wait, queue, cur, requeued,
                   handlers, regIdx, nConnects, ppc, nsub, errq, brokerLog,
                   failedEnvs, droppedEnvs>>
    /\ UNCHANGED <<offlineSub, startVars, hostVars, actorVars, exitVars, chanVars>>
    /\ UNCHANGED <<poolVars, rpcVars, raceVars, pubVars, workVars, procVars>>

---------------------------------------------------------------------------------------------------------------------------------------------------
(* CloudifyEventsPublisher *)

\* the keys of self.handlers, and a message_type that is none of them
Kinds == {"log", "event", "hook", "other"}

\* self.handlers.get(message_type) finds a handler
KnownKind(kind) == kind \in {"log", "event", "hook"}

\* wait_for_publish of the handler of the kind: False for the
\* NoWaitSendHandler of 'log', True for the SendHandlers of 'event' and 'hook'
KindWaits(kind) == kind # "log"

\* a publish_message that does not look at _is_closed
IsClosedGuardNever(flag) == FALSE

\* publish_message: if self._is_closed: raise ClosedAMQPClientException
IsClosedGuard(flag) == flag

\* publish_message(message, kind) up to the lookup of the handler
PublishCheck(p, kind) ==
    /\ ppc[p] = "idle"
    /\ nsub[p] < MaxMsgs
    /\ KnownKind(kind) => KindWaits(kind) = WaitFlag(p)
    /\ mkind' = [mkind EXCEPT ![p] = kind]
    /\ IF IsClosedGuard(is_closed)
       THEN /\ mres' = [mres EXCEPT ![p] = "ClosedAMQPClientException"]
            /\ UNCHANGED ppc
       ELSE /\ ppc' = [ppc EXCEPT ![p] = "publish"]
            /\ UNCHANGED mres
    /\ UNCHANGED <<is_closed, clpc, nConnClose>>
    /\ UNCHANGED <<apc, closed, pika, connAlive, outChannel, backoff, sleeps,
                   connect_timeout, error, connect_wait, queue, cur, requeued,
                   handlers, regIdx, regLog, regTotal, nConnects, hpc, nsub,
                   errq, brokerLog, failedEnvs, droppedEnvs>>
    /\ UNCHANGED <<offlineSub, startVars, hostVars, actorVars, exitVars, chanVars>>
    /\ UNCHANGED <<poolVars, rpcVars, raceVars, workVars, procVars>>

\* handler.publish(message): the envelope is put into the queue of the
\* connection by channel_method, and the caller blocks on its err_queue if
\* the handler waits; an unknown message_type is logged and nothing is put
PublishPut(p) ==
    /\ ppc[p] = "publish"
    /\ IF KnownKind(mkind[p])
       THEN LET e == Envelope(p, nsub[p] + 1) IN
            /\ queue' = Append(queue, e)
            /\ nsub' = [nsub EXCEPT ![p] = @ + 1]
            /\ ppc' = [ppc EXCEPT ![p] = IF e.wait THEN "waiting" ELSE "idle"]
            /\ mres' = [mres EXCEPT ![p] = "published"]
       ELSE /\ ppc' = [ppc EXCEPT ![p] = "idle"]
            /\ mres' = [mres EXCEPT ![p] = "unknown"]
            /\ UNCHANGED <<queue, nsub>>
    /\ UNCHANGED <<is_closed, clpc, nConnClose, mkind>>
    /\ UNCHANGED <<apc, closed, pika, connAlive, outChannel, backoff, sleeps,
                   connect_timeout, error, connect_wait, cur, requeued,
                   handlers, regIdx, regLog, regTotal, nConnects, hpc,
                   errq, brokerLog, failedEnvs, droppedEnvs>>
    /\ UNCHANGED <<offlineSub, startVars, hostVars, actorVars, exitVars, chanVars>>
    /\ UNCHANGED <<poolVars, rpcVars, raceVars, workVars, procVars>>

\* close(): if self._is_closed: return
PublisherCloseTest(k) ==
    /\ clpc[k] = "idle"
    /\ clpc' = [clpc EXCEPT ![k] = IF is_closed THEN "noop" ELSE "set"]
    /\ UNCHANGED <<is_closed, nConnClose, mkind, mres>>
    /\ UNCHANGED <<connVars, poolVars, rpcVars, raceVars, workVars, procVars>>

\* close(): self._is_closed = True
PublisherCloseSet(k) ==
    /\ clpc[k] = "set"
    /\ is_closed' = TRUE
    /\ clpc' = [clpc EXCEPT ![k] = "close"]
    /\ UNCHANGED <<nConnClose, mkind, mres>>
    /\ UNCHANGED <<connVars, poolVars, rpcVars, raceVars, workVars, procVars>>

\* close(): self._connection.close(), which sets _closed and, with a thread
\* stored, goes on to join it
PublisherCloseConnection(k) ==
    /\ clpc[k] = "close"
    /\ closed' = TRUE
    /\ nConnClose' = nConnClose + 1
    /\ clpc' = [clpc EXCEPT ![k] = IF consumer_thread THEN "join" ELSE "returned"]
    /\ UNCHANGED <<is_closed, mkind, mres>>
    /\ UNCHANGED <<apc, pika, connAlive, outChannel, backoff, sleeps,
                   connect_timeout, error, connect_wait, queue, cur, requeued,
                   handlers, regIdx, regLog, regTotal, nConnects, hpc, ppc,
                   nsub, errq, brokerLog, failedEnvs, droppedEnvs>>
    /\ UNCHANGED <<offlineSub, startVars, hostVars, actorVars, exitVars, chanVars>>
    /\ UNCHANGED <<poolVars, rpcVars, raceVars, workVars, procVars>>

\* self._consumer_thread.join() returns when the thread has ended;
\* self._consumer_thread = None, and close() returns
PublisherCloseJoined(k) ==
    /\ clpc[k] = "join"
    /\ apc \in {"done", "dead"}
    /\ consumer_thread' = FALSE
    /\ clpc' = [clpc EXCEPT ![k] = "returned"]
    /\ UNCHANGED <<is_closed, nConnClose, mkind, mres>>
    /\ UNCHANGED <<apc, closed, pika, connAlive, outChannel, backoff, sleeps,
                   connect_timeout, error, connect_wait, queue, cur, requeued,
                   handlers, regIdx, regLog, regTotal, nConnects, hpc, ppc,
                   nsub, errq, brokerLog, failedEnvs, droppedEnvs>>
    /\ UNCHANGED <<offlineSub, spc, startResult, startAgain, hostVars,
                   actorVars, exitVars, chanVars>>
    /\ UNCHANGED <<poolVars, rpcVars, raceVars, workVars, procVars>>

-----------------------------------------------------------------------------
(* TaskConsumer: the worker pool *)

Tags == 1..MaxDeliveries

\* positions of a worker thread inside _process_message
\*   "start"   before the early ack        "handle"  before handle_task
\*   "ack"     before the late ack         "reply"   before the reply publish
\*   "next"    before _maybe_run_next_task "release" before self._sem.release()
\*   "eackwait", "lackwait", "replywait"  blocked on the err_queue of the call
LivePcs ==
    {"start", "eackwait", "handle", "ack", "lackwait", "reply", "replywait",
     "next", "release"}

Live == {t \in Tags : wpc[t] \in LivePcs}

\* __init__: self._sem = threading.Semaphore(threadpool_size), an empty deque
InitPoolVars ==
    /\ sem = PoolSize
    /\ tasks_buffer = <<>>
    /\ dpc = "idle"
    /\ dtag = 0
    /\ nDelivered = 0
    /\ wpc = [t \in Tags |-> "none"]
    /\ ackEnqueued = {}
    /\ callState = [t \in Tags |-> "none"]
    /\ result = [t \in Tags |-> "none"]
    /\ replies = [t \in Tags |-> <<>>]

InitPoolIdle == InitPoolVars /\ late_ack = FALSE

\* a process() that acks the delivery before it parses the body
DeliverBadJsonAcked ==
    /\ dpc = "idle"
    /\ nDelivered < MaxDeliveries
    /\ nDelivered' = nDelivered + 1
    /\ wpc' = [wpc EXCEPT ![nDelivered + 1] = "unparsed"]
    /\ ackEnqueued' = ackEnqueued \cup {nDelivered + 1}
    /\ UNCHANGED <<sem, tasks_buffer, dpc, dtag, late_ack>>
    /\ UNCHANGED <<connVars, rpcVars, raceVars, pubVars, workVars, procVars>>

\* process(): json.loads(body) raises ValueError; the error is logged and the
\* delivery dropped
DeliverBadJson ==
    /\ dpc = "idle"
    /\ nDelivered < MaxDeliveries
    /\ nDelivered' = nDelivered + 1
    /\ wpc' = [wpc EXCEPT ![nDelivered + 1] = "unparsed"]
    /\ UNCHANGED <<sem, tasks_buffer, dpc, dtag, late_ack, ackEnqueued>>
    /\ UNCHANGED <<connVars, rpcVars, raceVars, pubVars, workVars, procVars>>

\* process(): the body parses; task_args is built
Deliver ==
    /\ dpc = "idle"
    /\ nDelivered < MaxDeliveries
    /\ nDelivered' = nDelivered + 1
    /\ dtag' = nDelivered + 1
    /\ dpc' = "acquire"
    /\ UNCHANGED <<sem, tasks_buffer, wpc, late_ack, ackEnqueued>>
    /\ UNCHANGED <<connVars, rpcVars, raceVars, pubVars, workVars, procVars>>

\* a process() that starts the task whatever the semaphore says
TryAcquireAlways(s) == TRUE

\* self._sem.acquire(blocking=False)
TryAcquire(s) == s > 0

\* process(): if self._sem.acquire(blocking=False): self._run_task(task_args)
Acquire ==
    /\ dpc = "acquire"
    /\ IF TryAcquire(sem)
       THEN /\ sem' = sem - 1
            /\ wpc' = [wpc EXCEPT ![dtag] = "start"]
            /\ dpc' = "idle"
            /\ dtag' = 0
       ELSE /\ dpc' = "append"
            /\ UNCHANGED <<sem, wpc, dtag>>
    /\ UNCHANGED <<tasks_buffer, nDelivered, late_ack, ackEnqueued>>
    /\ UNCHANGED <<connVars, rpcVars, raceVars, pubVars, workVars, procVars>>

\* process(): else: self._tasks_buffer.append(task_args)
AppendToBuffer ==
    /\ dpc = "append"
    /\ tasks_buffer' = Append(tasks_buffer, dtag)
    /\ wpc' = [wpc EXCEPT ![dtag] = "buffered"]
    /\ dpc' = "idle"
    /\ dtag' = 0
    /\ UNCHANGED <<sem, nDelivered, late_ack, ackEnqueued>>
    /\ UNCHANGED <<connVars, rpcVars, raceVars, pubVars, workVars, procVars>>

\* The worker's ack and reply publish go through channel_method with
\* wait=True: the worker blocks until the connection thread has invoked the
\* envelope in _process_publish, which it does not do while it is inside
\* process()
ConnectionThreadDrains == dpc = "idle"

\* such a call raises in the worker: nothing catches it and the thread ends
\* where it is
WorkerCallRaises(t, at) ==
    /\ wpc[t] = at
    /\ ConnectionThreadDrains
    /\ wpc' = [wpc EXCEPT ![t] = "died"]
    /\ UNCHANGED <<sem, tasks_buffer, dpc, dtag, nDelivered, late_ack>>
    /\ UNCHANGED <<connVars, rpcVars, raceVars, pubVars, workVars, procVars>>

WorkerStep(t, at, to) ==
    /\ wpc[t] = at
    /\ wpc' = [wpc EXCEPT ![t] = to]
    /\ UNCHANGED <<sem, tasks_buffer, dpc, dtag, nDelivered, late_ack>>
    /\ UNCHANGED <<connVars, rpcVars, raceVars, pubVars, workVars, procVars>>

\* a _process_message that acks before handle_task whatever late_ack says
AcksBeforeHandlingAlways(la) == TRUE

\* _process_message: if not self.late_ack:
AcksBeforeHandling(la) == ~la

\* _process_message: if self.late_ack:
AcksAfterHandling(la) == la

\* _process_message: if not self.late_ack: self._connection.ack(...); ack()
\* puts the basic_ack envelope into the queue and blocks until the connection
\* thread has invoked it
EarlyAck(t) ==
    /\ wpc[t] = "start"
    /\ IF AcksBeforeHandling(late_ack)
       THEN /\ ConnectionThreadDrains
            /\ ackEnqueued' = ackEnqueued \cup {t}
       ELSE UNCHANGED ackEnqueued
    /\ WorkerStep(t, "start", "handle")

EarlyAckRaises(t) ==
    /\ wpc[t] = "start"
    /\ AcksBeforeHandling(late_ack)
    /\ ackEnqueued' = ackEnqueued \cup {t}
    /\ WorkerCallRaises(t, "start")

\* _process_message: result = self.handle_task(full_task); an exception of
\* handle_task is caught and turned into the result
HandleTask(t) ==
    /\ wpc[t] = "handle"
    /\ UNCHANGED ackEnqueued
    /\ WorkerStep(t, "handle", "ack")

\* _process_message: if self.late_ack: self._connection.ack(...)
LateAck(t) ==
    /\ wpc[t] = "ack"
    /\ IF AcksAfterHandling(late_ack)
       THEN /\ ConnectionThreadDrains
            /\ ackEnqueued' = ackEnqueued \cup {t}
       ELSE UNCHANGED ackEnqueued
    /\ WorkerStep(t, "ack", "reply")

LateAckRaises(t) ==
    /\ wpc[t] = "ack"
    /\ AcksAfterHandling(late_ack)
    /\ ackEnqueued' = ackEnqueued \cup {t}
    /\ WorkerCallRaises(t, "ack")

\* _process_message: properties.reply_to is empty, nothing is published
NoReply(t) ==
    /\ wpc[t] = "reply"
    /\ UNCHANGED ackEnqueued
    /\ WorkerStep(t, "reply", "next")

\* _process_message: if properties.reply_to: self._connection.publish(...)
Reply(t) ==
    /\ wpc[t] = "reply"
    /\ ConnectionThreadDrains
    /\ UNCHANGED ackEnqueued
    /\ WorkerStep(t, "reply", "next")

ReplyRaises(t) ==
    /\ wpc[t] = "reply"
    /\ UNCHANGED ackEnqueued
    /\ WorkerCallRaises(t, "reply")

\* _maybe_run_next_task: popleft() returns a task; _run_task starts a thread
\* for it and this worker's slot passes to that thread
RunNextTask(t) ==
    /\ wpc[t] = "next"
    /\ tasks_buffer # <<>>
    /\ tasks_buffer' = Tail(tasks_buffer)
    /\ wpc' = [wpc EXCEPT ![t] = "end", ![Head(tasks_buffer)] = "start"]
    /\ UNCHANGED <<sem, dpc, dtag, nDelivered, late_ack, ackEnqueued>>
    /\ UNCHANGED <<connVars, rpcVars, raceVars, pubVars, workVars, procVars>>

\* _maybe_run_next_task: popleft() raises IndexError; return False
NoNextTask(t) ==
    /\ wpc[t] = "next"
    /\ tasks_buffer = <<>>
    /\ wpc' = [wpc EXCEPT ![t] = "release"]
    /\ UNCHANGED <<sem, tasks_buffer, dpc, dtag, nDelivered, late_ack, ackEnqueued>>
    /\ UNCHANGED <<connVars, rpcVars, raceVars, pubVars, workVars, procVars>>

\* _process_message: self._sem.release()
Release(t) ==
    /\ wpc[t] = "release"
    /\ sem' = sem + 1
    /\ wpc' = [wpc EXCEPT ![t] = "end"]
    /\ UNCHANGED <<tasks_buffer, dpc, dtag, nDelivered, late_ack, ackEnqueued>>
    /\ UNCHANGED <<connVars, rpcVars, raceVars, pubVars, workVars, procVars>>

\* the properties of delivery t: the odd tags are requests that carry
\* reply_to and the even ones carry none; <<>> stands for an empty reply_to
Properties(t) ==
    [reply_to |-> IF t % 2 = 1 THEN <<"reply_to", t>> ELSE <<>>,
     correlation_id |-> <<"correlation_id", t>>]

\* the exchange attribute of the consumer
ConsumerExchange == "exchange"

\* a _process_message that leaves the correlation id out of its reply
ReplyEnvelopeNoId(t, res) ==
    [exchange |-> ConsumerExchange,
     routing_key |-> Properties(t).reply_to,
     correlation_id |-> <<>>,
     body |-> res]

\* the message _process_message hands to publish()
ReplyEnvelope(t, res) ==
    [exchange |-> ConsumerExchange,
     routing_key |-> Properties(t).reply_to,
     correlation_id |-> Properties(t).correlation_id,
     body |-> res]

\* a _process_message that lets the exception of handle_task end the thread
HandleResultUncaught(raises) == IF raises THEN "uncaught" ELSE "ok"

\* result = self.handle_task(full_task), or {'ok': False, 'error': repr(e)}
\* when handle_task raises
HandleResult(raises) == IF raises THEN "error" ELSE "ok"

\* a worker step that leaves the semaphore, the buffer and process() alone
WorkerMoves(t, at, to) ==
    /\ wpc[t] = at
    /\ wpc' = [wpc EXCEPT ![t] = to]
    /\ UNCHANGED <<sem, tasks_buffer, dpc, dtag, nDelivered, late_ack>>
    /\ UNCHANGED <<connVars, rpcVars, raceVars, pubVars, procVars>>

\* _process_message: if not self.late_ack: self._connection.ack(...): the
\* basic_ack envelope is put into the queue and the worker blocks on its
\* err_queue
AckBefore(t) ==
    /\ wpc[t] = "start"
    /\ IF AcksBeforeHandling(late_ack)
       THEN /\ ackEnqueued' = ackEnqueued \cup {t}
            /\ callState' = [callState EXCEPT ![t] = "queued"]
            /\ WorkerMoves(t, "start", "eackwait")
       ELSE /\ UNCHANGED <<ackEnqueued, callState>>
            /\ WorkerMoves(t, "start", "handle")
    /\ UNCHANGED <<result, replies>>

\* _process_publish invokes the envelope of the worker of t and puts None or
\* the exception on its err_queue
InvokeWorkerCall(t) ==
    /\ callState[t] = "queued"
    /\ ConnectionThreadDrains
    /\ \E v \in {"ok", "error"} : callState' = [callState EXCEPT ![t] = v]
    /\ UNCHANGED <<result, replies>>
    /\ UNCHANGED <<connVars, poolVars, rpcVars, raceVars, pubVars, procVars>>

\* a channel_method that returns without waiting for the err_queue
WorkerCallReturnsUnanswered(t, at, to) ==
    /\ wpc[t] = at
    /\ callState[t] = "queued"
    /\ callState' = [callState EXCEPT ![t] = "none"]
    /\ WorkerMoves(t, at, to)
    /\ UNCHANGED <<ackEnqueued, result, replies>>

\* err_queue.get() returns None: the call of the worker returns
WorkerCallReturns(t, at, to) ==
    /\ wpc[t] = at
    /\ callState[t] = "ok"
    /\ callState' = [callState EXCEPT ![t] = "none"]
    /\ WorkerMoves(t, at, to)
    /\ UNCHANGED <<ackEnqueued, result, replies>>

AckBeforeReturns(t) ==
    /\ wpc[t] = "eackwait"
    /\ WorkerCallReturns(t, "eackwait", "handle")

AckAfterReturns(t) ==
    /\ wpc[t] = "lackwait"
    /\ WorkerCallReturns(t, "lackwait", "reply")

ReplyReturns(t) ==
    /\ wpc[t] = "replywait"
    /\ WorkerCallReturns(t, "replywait", "next")

\* err_queue.get() returns an exception, which channel_method raises in the
\* worker: nothing in _process_message catches it and the thread ends
WorkerCallFails(t) ==
    /\ wpc[t] \in {"eackwait", "lackwait", "replywait"}
    /\ callState[t] = "error"
    /\ callState' = [callState EXCEPT ![t] = "none"]
    /\ WorkerMoves(t, wpc[t], "died")
    /\ UNCHANGED <<ackEnqueued, result, replies>>

\* _process_message: the try around self.handle_task(full_task)
HandleTaskResult(t) ==
    /\ wpc[t] = "handle"
    /\ \E raises \in BOOLEAN :
           /\ result' = [result EXCEPT ![t] = HandleResult(raises)]
           /\ WorkerMoves(t, "handle",
                          IF HandleResult(raises) = "uncaught" THEN "died"
                          ELSE "ack")
    /\ UNCHANGED <<ackEnqueued, callState, replies>>

\* _process_message: if self.late_ack: self._connection.ack(...)
AckAfter(t) ==
    /\ wpc[t] = "ack"
    /\ IF AcksAfterHandling(late_ack)
       THEN /\ ackEnqueued' = ackEnqueued \cup {t}
            /\ callState' = [callState EXCEPT ![t] = "queued"]
            /\ WorkerMoves(t, "ack", "lackwait")
       ELSE /\ UNCHANGED <<ackEnqueued, callState>>
            /\ WorkerMoves(t, "ack", "reply")
    /\ UNCHANGED <<result, replies>>

\* _process_message: if properties.reply_to: self._connection.publish(...)
PublishReply(t) ==
    /\ wpc[t] = "reply"
    /\ IF Properties(t).reply_to # <<>>
       THEN /\ replies' = [replies EXCEPT ![t] = Append(@, ReplyEnvelope(t, result[t]))]
            /\ callState' = [callState EXCEPT ![t] = "queued"]
            /\ WorkerMoves(t, "reply", "replywait")
       ELSE /\ UNCHANGED <<replies, callState>>
            /\ WorkerMoves(t, "reply", "next")
    /\ UNCHANGED <<ackEnqueued, result>>


----------------------------------------------------------------------------
(* BlockingRequestResponseHandler and CallbackRequestResponseHandler *)

\* the publish calls; call k carries correlation id k
Calls == 1..MaxCalls

\* the parsed body of the n-th delivery, sent in answer to request `corr`
Response(corr, n) == [corr |-> corr, n |-> n]

NoResponse == [corr |-> 0, n |-> 0]

\* the handlers before any publish call: self._response_queues = {} and
\* self._callbacks = {}
InitRpcVars ==
    /\ response_queues = [k \in {} |-> <<>>]
    /\ callbacks = {}
    /\ nReplies = 0
    /\ prpc = "idle"
    /\ pcorr = 0
    /\ keyError = FALSE

\* the request/response handlers with no publish call made
InitRpcIdle ==
    /\ InitRpcVars
    /\ bpc = <<>>
    /\ btimeout = <<>>
    /\ bres = <<>>
    /\ cpc = <<>>
    /\ cbInvoked = <<>>

\* self._response_queues[correlation_id] = Queue.Queue()
PutEntry(tbl, k) ==
    [j \in DOMAIN tbl \cup {k} |-> IF j = k THEN <<>> ELSE tbl[j]]

\* a publish whose finally-clause leaves the table as it is
RemoveEntryKept(tbl, k) == tbl

\* del self._response_queues[correlation_id]
RemoveEntry(tbl, k) == [j \in DOMAIN tbl \ {k} |-> tbl[j]]

\* a process that hands the response to every waiting caller
DeliverToAll(tbl, corr) == DOMAIN tbl

\* process: if properties.correlation_id in self._response_queues: the keys
\* whose queue receives the response
DeliverTo(tbl, corr) == IF corr \in DOMAIN tbl THEN {corr} ELSE {}

\* BlockingRequestResponseHandler.publish up to the table entry
BPublishCreate(k, finite) ==
    /\ bpc[k] = "idle"
    /\ response_queues' = PutEntry(response_queues, k)
    /\ btimeout' = [btimeout EXCEPT ![k] = finite]
    /\ bpc' = [bpc EXCEPT ![k] = "publish"]
    /\ UNCHANGED <<bres, callbacks, cpc, cbInvoked, nReplies>>
    /\ UNCHANGED <<connVars, poolVars, raceVars, pubVars, workVars, procVars>>

\* super().publish(...) returns: connection.publish(), which waits for the
\* connection thread to send the request, has found None in its err_queue
BPublishSent(k) ==
    /\ bpc[k] = "publish"
    /\ bpc' = [bpc EXCEPT ![k] = "get"]
    /\ UNCHANGED <<response_queues, btimeout, bres, callbacks, cpc, cbInvoked,
                   nReplies>>
    /\ UNCHANGED <<connVars, poolVars, raceVars, pubVars, workVars, procVars>>

\* super().publish(...) raises: connection.publish() found an exception in
\* its err_queue, or was called on the consumer thread; the call stands
\* before the try statement, so the exception leaves publish at once
BPublishRaises(k) ==
    /\ bpc[k] = "publish"
    /\ bpc' = [bpc EXCEPT ![k] = "raised"]
    /\ UNCHANGED <<response_queues, btimeout, bres, callbacks, cpc, cbInvoked,
                   nReplies>>
    /\ UNCHANGED <<connVars, poolVars, raceVars, pubVars, workVars, procVars>>

\* resp = self._response_queues[correlation_id].get(timeout=timeout) returns;
\* finally: del self._response_queues[correlation_id]
BGetResponse(k) ==
    /\ bpc[k] = "get"
    /\ response_queues[k] # <<>>
    /\ bres' = [bres EXCEPT ![k] = Head(response_queues[k])]
    /\ response_queues' = RemoveEntry(response_queues, k)
    /\ bpc' = [bpc EXCEPT ![k] = "returned"]
    /\ UNCHANGED <<btimeout, callbacks, cpc, cbInvoked, nReplies>>
    /\ UNCHANGED <<connVars, poolVars, raceVars, pubVars, workVars, procVars>>

\* the get raises Queue.Empty when the timeout ends: RuntimeError('No
\* response received for task ...'); finally: del
BGetTimeout(k) ==
    /\ bpc[k] = "get"
    /\ btimeout[k]
    /\ response_queues[k] = <<>>
    /\ response_queues' = RemoveEntry(response_queues, k)
    /\ bpc' = [bpc EXCEPT ![k] = "noresponse"]
    /\ UNCHANGED <<btimeout, bres, callbacks, cpc, cbInvoked, nReplies>>
    /\ UNCHANGED <<connVars, poolVars, raceVars, pubVars, workVars, procVars>>

\* BlockingRequestResponseHandler.process: basic_ack, json.loads, then the
\* response is put into the queue stored under its correlation id, if any
BProcess(corr) ==
    /\ nReplies < MaxReplies
    /\ nReplies' = nReplies + 1
    /\ response_queues' =
           [j \in DOMAIN response_queues |->
               IF j \in DeliverTo(response_queues, corr)
               THEN Append(response_queues[j], Response(corr, nReplies + 1))
               ELSE response_queues[j]]
    /\ UNCHANGED <<bpc, btimeout, bres, callbacks, cpc, cbInvoked>>
    /\ UNCHANGED <<connVars, poolVars, raceVars, pubVars, workVars, procVars>>

\* BlockingRequestResponseHandler.process up to and with the test
\* `if properties.correlation_id in self._response_queues`
BProcessTest(corr) ==
    /\ prpc = "idle"
    /\ nReplies < MaxReplies
    /\ nReplies' = nReplies + 1
    /\ IF corr \in DOMAIN response_queues
       THEN prpc' = "lookup" /\ pcorr' = corr
       ELSE UNCHANGED <<prpc, pcorr>>
    /\ UNCHANGED keyError
    /\ UNCHANGED <<response_queues, bpc, btimeout, bres, callbacks, cpc,
                   cbInvoked>>
    /\ UNCHANGED <<connVars, poolVars, raceVars, pubVars, workVars>>

\* process: self._response_queues[properties.correlation_id].put(response);
\* the subscript raises KeyError when the key is no longer in the table
BProcessLookup ==
    /\ prpc = "lookup"
    /\ IF pcorr \in DOMAIN response_queues
       THEN /\ response_queues' =
                   [response_queues EXCEPT
                        ![pcorr] = Append(@, Response(pcorr, nReplies))]
            /\ prpc' = "idle"
            /\ UNCHANGED keyError
       ELSE /\ keyError' = TRUE
            /\ prpc' = "raised"
            /\ UNCHANGED response_queues
    /\ pcorr' = 0
    /\ UNCHANGED <<bpc, btimeout, bres, callbacks, cpc, cbInvoked, nReplies>>
    /\ UNCHANGED <<connVars, poolVars, raceVars, pubVars, workVars>>

\* process of either handler: json.loads raises ValueError; the error is
\* logged and the response dropped
ProcessBadJson ==
    /\ nReplies < MaxReplies
    /\ nReplies' = nReplies + 1
    /\ UNCHANGED <<response_queues, bpc, btimeout, bres, callbacks, cpc,
                   cbInvoked>>
    /\ UNCHANGED <<connVars, poolVars, raceVars, pubVars, workVars, procVars>>

\* CallbackRequestResponseHandler.publish with a callback:
\* wait_for_response stores it under the correlation id
CPublishRegister(k) ==
    /\ cpc[k] = "idle"
    /\ callbacks' = callbacks \cup {k}
    /\ cpc' = [cpc EXCEPT ![k] = "publish"]
    /\ UNCHANGED <<response_queues, bpc, btimeout, bres, cbInvoked, nReplies>>
    /\ UNCHANGED <<connVars, poolVars, raceVars, pubVars, workVars, procVars>>

\* super().publish(...) returns
CPublishSent(k) ==
    /\ cpc[k] = "publish"
    /\ cpc' = [cpc EXCEPT ![k] = "returned"]
    /\ UNCHANGED <<response_queues, bpc, btimeout, bres, callbacks, cbInvoked,
                   nReplies>>
    /\ UNCHANGED <<connVars, poolVars, raceVars, pubVars, workVars, procVars>>

\* super().publish(...) raises
CPublishRaises(k) ==
    /\ cpc[k] = "publish"
    /\ cpc' = [cpc EXCEPT ![k] = "raised"]
    /\ UNCHANGED <<response_queues, bpc, btimeout, bres, callbacks, cbInvoked,
                   nReplies>>
    /\ UNCHANGED <<connVars, poolVars, raceVars, pubVars, workVars, procVars>>

\* CallbackRequestResponseHandler.process: basic_ack, json.loads, then the
\* callback stored under the correlation id, if any, is called
CProcess(corr) ==
    /\ nReplies < MaxReplies
    /\ nReplies' = nReplies + 1
    /\ cbInvoked' = IF corr \in callbacks
                     THEN [cbInvoked EXCEPT ![corr] = @ + 1]
                     ELSE cbInvoked
    /\ UNCHANGED <<response_queues, bpc, btimeout, bres, callbacks, cpc>>
    /\ UNCHANGED <<connVars, poolVars, raceVars, pubVars, workVars, procVars>>

\* both handlers on a connected client, no publish call made yet
InitRpc ==
    /\ InitConnVars
    /\ connect_timeout = <<>>
    /\ InitPoolVars
    /\ late_ack = FALSE
    /\ InitRpcVars
    /\ bpc = [k \in Calls |-> "idle"]
    /\ btimeout = [k \in Calls |-> FALSE]
    /\ bres = [k \in Calls |-> NoResponse]
    /\ cpc = [k \in Calls |-> "idle"]
    /\ cbInvoked = [k \in Calls |-> 0]

\* blocking publish calls and the responses delivered to the handler
NextBlockingRpc ==
    \/ \E k \in Calls, finite \in BOOLEAN : BPublishCreate(k, finite)
    \/ \E k \in Calls : BPublishSent(k)
    \/ \E k \in Calls : BPublishRaises(k)
    \/ \E k \in Calls : BGetResponse(k)
    \/ \E k \in Calls : BGetTimeout(k)
    \/ \E k \in Calls : BProcess(k)
    \/ ProcessBadJson

SpecBlockingRpc == InitRpc /\ [][NextBlockingRpc]_vars

\* blocking publish calls and process() with its test and its lookup as two
\* steps of the connection thread
NextBlockingRace ==
    \/ \E k \in Calls, finite \in BOOLEAN : BPublishCreate(k, finite)
    \/ \E k \in Calls : BPublishSent(k)
    \/ \E k \in Calls : BPublishRaises(k)
    \/ \E k \in Calls : BGetResponse(k)
    \/ \E k \in Calls : BGetTimeout(k)
    \/ \E k \in Calls : BProcessTest(k)
    \/ BProcessLookup

SpecBlockingRace == InitRpc /\ [][NextBlockingRace]_vars

\* publish calls with a callback and the responses delivered to the handler
NextCallbackRpc ==
    \/ \E k \in Calls : CPublishRegister(k)
    \/ \E k \in Calls : CPublishSent(k)
    \/ \E k \in Calls : CPublishRaises(k)
    \/ \E k \in Calls : CProcess(k)
    \/ ProcessBadJson

SpecCallbackRpc == InitRpc /\ [][NextCallbackRpc]_vars

----------------------------------------------------------------------------
(* TaskConsumer: the pool on its own *)

InitPool ==
    /\ InitConnVars
    /\ connect_timeout = <<>>
    /\ InitPoolVars
    /\ late_ack \in BOOLEAN
    /\ InitRpcIdle

NextPool ==
    \/ DeliverBadJson
    \/ Deliver
    \/ Acquire
    \/ AppendToBuffer
    \/ \E t \in Tags : EarlyAck(t)
    \/ \E t \in Tags : EarlyAckRaises(t)
    \/ \E t \in Tags : HandleTask(t)
    \/ \E t \in Tags : LateAck(t)
    \/ \E t \in Tags : LateAckRaises(t)
    \/ \E t \in Tags : NoReply(t)
    \/ \E t \in Tags : Reply(t)
    \/ \E t \in Tags : ReplyRaises(t)
    \/ \E t \in Tags : RunNextTask(t)
    \/ \E t \in Tags : NoNextTask(t)
    \/ \E t \in Tags : Release(t)

SpecPool == InitPool /\ [][NextPool]_vars

\* one TaskConsumer with the calls of its workers followed through the queue
NextWorkers ==
    \/ Deliver
    \/ Acquire
    \/ AppendToBuffer
    \/ \E t \in Tags : AckBefore(t)
    \/ \E t \in Tags : InvokeWorkerCall(t)
    \/ \E t \in Tags : AckBeforeReturns(t)
    \/ \E t \in Tags : HandleTaskResult(t)
    \/ \E t \in Tags : AckAfter(t)
    \/ \E t \in Tags : AckAfterReturns(t)
    \/ \E t \in Tags : PublishReply(t)
    \/ \E t \in Tags : ReplyReturns(t)
    \/ \E t \in Tags : WorkerCallFails(t)
    \/ \E t \in Tags : RunNextTask(t)
    \/ \E t \in Tags : NoNextTask(t)
    \/ \E t \in Tags : Release(t)

SpecWorkers == InitPool /\ [][NextWorkers]_vars

-----
(* Specifications of the connection actor *)

\* a client built with either connect_timeout=None or the default
InitConn == InitConnVars /\ InitPoolIdle /\ InitRpcIdle

\* a client built with the default connect_timeout
InitConnDefault == InitConn /\ connect_timeout = <<DefaultConnectTimeout>>

\* connect() and its register pass
NextConnect ==
    \/ ConnectOk
    \/ OpenOutChannel
    \/ RegisterNext
    \/ RegisterDone

\* the pump loop and the final drain, without the envelopes
NextPump ==
    \/ PumpExit
    \/ PumpEvents
    \/ PumpConnectionClosed
    \/ DrainEmpty
    \/ FinalEmpty

\* the envelopes in the drain
NextDrain ==
    \/ DrainPop
    \/ DrainInvokeOk
    \/ DrainInvokeChannelClosed
    \/ DrainInvokeError
    \/ DrainInvokeClosed
    \/ DrainInvokeConnectionClosed
    \/ FinalPop
    \/ FinalInvokeOk
    \/ FinalInvokeError
    \/ FinalInvokeClosed
    \/ FinalInvokeConnectionClosed

NextEnv ==
    \/ BrokerDrop
    \/ Close

NextProducers ==
    \/ \E p \in Producers : Submit(p)
    \/ \E p \in Producers : Receive(p)

NextAddHandler ==
    \/ AddHandlerAppend
    \/ AddHandlerCheck
    \/ AddHandlerRegister

\* the actor against a broker that refuses and drops connections
NextBackoffRun == ConnectFail \/ NextConnect \/ NextPump \/ NextEnv

SpecBackoff == InitConn /\ [][NextBackoffRun]_vars

\* the actor against a broker that refuses and drops connections, with no
\* close() call
NextOutage ==
    \/ ConnectFail
    \/ NextConnect
    \/ PumpEvents
    \/ PumpConnectionClosed
    \/ DrainEmpty
    \/ BrokerDrop

SpecOutage == InitConn /\ [][NextOutage]_vars

\* the actor, the handler list and add_handler from a foreign thread
NextReg == ConnectFailShort \/ NextConnect \/ NextPump \/ NextEnv \/ NextAddHandler

SpecReg == InitConnDefault /\ [][NextReg]_vars

\* the actor, the outbound queue and producers whose waits have a timeout
NextTimeout ==
    NextConnect \/ NextPump \/ NextDrain \/ NextEnv \/ NextProducers
        \/ \E p \in Producers : GetTimeout(p)

SpecTimeout == InitConnDefault /\ [][NextTimeout]_vars

\* the actor, the outbound queue and the producers
NextConn ==
    ConnectFailShort \/ NextConnect \/ NextPump \/ NextDrain \/ NextEnv
        \/ NextProducers

SpecConn == InitConnDefault /\ [][NextConn]_vars

\* a client that is given a list of NumHosts broker hosts
InitHosts ==
    /\ InitActor
    /\ InitStarted
    /\ InitActorCalls
    /\ InitRace
    /\ InitPublisher
    /\ hosts \in ShuffledHosts
    /\ hostPos = 1
    /\ lastHosts = <<>>
    /\ InitPoolIdle
    /\ InitRpcIdle

\* the connect attempts of the initial connect and of the reconnects
NextHosts == ConnectFailShort \/ NextConnect \/ NextPump \/ NextEnv

SpecHosts == InitHosts /\ [][NextHosts]_vars

\* a client on which consume_in_thread has not been called yet
InitStart ==
    /\ InitActor
    /\ apc = "new"
    /\ consumer_thread = FALSE
    /\ spc = "idle"
    /\ startResult = "none"
    /\ startAgain = "none"
    /\ InitSingleHost
    /\ InitActorCalls
    /\ InitRace
    /\ InitPublisher
    /\ InitPoolIdle
    /\ InitRpcIdle

\* consume_in_thread and the actor it starts, against a broker that refuses
\* and drops connections
NextStart ==
    \/ StartSpawn
    \/ StartObserve
    \/ StartCheck
    \/ StartAgain
    \/ ConnectFail
    \/ NextConnect
    \/ NextPump
    \/ NextEnv

SpecStart == InitStart /\ [][NextStart]_vars

\* consume_in_thread called by several threads at once, and the actor
NextStartRace ==
    \/ \E c \in Starters : StartTest(c)
    \/ \E c \in Starters : StartCreate(c)
    \/ \E c \in Starters : StartWaited(c)
    \/ ConnectFailShort
    \/ NextConnect
    \/ NextPump
    \/ NextEnv

SpecStartRace == InitStart /\ [][NextStartRace]_vars

\* the publisher as create_events_publisher returns it: connect() has
\* returned, the thread has made its connection and registered the handlers
InitEventsPublisher ==
    /\ closed = FALSE
    /\ pika = 1
    /\ connAlive = TRUE
    /\ outChannel = 1
    /\ backoff = InitialBackoff
    /\ sleeps = <<>>
    /\ connect_timeout = <<DefaultConnectTimeout>>
    /\ error = "None"
    /\ connect_wait = TRUE
    /\ queue = <<>>
    /\ cur = NoEnv
    /\ requeued = NoEnv
    /\ handlers = InitHandlers
    /\ regIdx = Len(InitHandlers) + 1
    /\ regLog = InitHandlers
    /\ regTotal = [h \in AllHandlers |-> IF h \in Range(InitHandlers) THEN 1 ELSE 0]
    /\ nConnects = 1
    /\ hpc = "idle"
    /\ ppc = [p \in Producers |-> "idle"]
    /\ nsub = [p \in Producers |-> 0]
    /\ errq = [p \in Producers |-> <<>>]
    /\ brokerLog = <<>>
    /\ failedEnvs = {}
    /\ droppedEnvs = {}
    /\ offlineSub = {}
    /\ breakWaiters = {}
    /\ confirmOn = {1}
    /\ apc = "pump"
    /\ consumer_thread = TRUE
    /\ spc = "idle"
    /\ startResult = "returned"
    /\ startAgain = "none"
    /\ hosts = <<1>>
    /\ hostPos = 1
    /\ lastHosts = <<1>>
    /\ InitActorCalls
    /\ InitRace
    /\ InitPublisher
    /\ InitPoolIdle
    /\ InitRpcIdle

\* the events publisher, its callers and the actor against a broker that
\* keeps the connection up
NextPublisher ==
    \/ \E p \in Producers, kind \in Kinds : PublishCheck(p, kind)
    \/ \E p \in Producers : PublishPut(p)
    \/ \E p \in Producers : Receive(p)
    \/ \E k \in Closers : PublisherCloseTest(k)
    \/ \E k \in Closers : PublisherCloseSet(k)
    \/ \E k \in Closers : PublisherCloseConnection(k)
    \/ \E k \in Closers : PublisherCloseJoined(k)
    \/ PumpExit
    \/ PumpEvents
    \/ DrainPop
    \/ DrainEmpty
    \/ DrainInvokeOk
    \/ FinalPop
    \/ FinalEmpty
    \/ FinalInvokeOk

SpecPublisher == InitEventsPublisher /\ [][NextPublisher]_vars

\* the actor, the outbound queue and channel_method calls made on the
\* consumer thread itself
NextActorCalls ==
    \/ ConnectFailShort
    \/ NextConnect
    \/ NextPump
    \/ NextDrain
    \/ NextEnv
    \/ \E w, caught \in BOOLEAN : ActorChannelMethod(w, caught)

SpecActorCalls == InitConnDefault /\ [][NextActorCalls]_vars

----------------------------------------------------------------------------
(* Properties of the connection actor *)

\* the sequence numbers of producer p's envelopes in the order the broker
\* executed them
SeqsOf(p) ==
    LET own == SelectSeq(brokerLog, LAMBDA e : e.prod = p)
    IN  [i \in 1..Len(own) |-> own[i].seq]

\* the envelopes handed to channel_method so far
Submitted == UNION {{Envelope(p, n) : n \in 1..nsub[p]} : p \in Producers}

\* envelopes of p that are still in the queue or in the actor's hands
Pending(p) == {e \in Range(queue) \cup {cur} : e.prod = p}

StrictlyIncreasing(s) == \A i, j \in 1..Len(s) : i < j => s[i] < s[j]

C2_RequeuedAtHead ==
    requeued # NoEnv => (queue # <<>> /\ Head(queue) = requeued)

Occurrences(e) ==
    Count(queue, e) + Count(brokerLog, e)
        + (IF cur = e THEN 1 ELSE 0)
        + (IF e \in failedEnvs THEN 1 ELSE 0)
        + (IF e \in droppedEnvs THEN 1 ELSE 0)

Unfinished(e) ==
    /\ Count(brokerLog, e) = 0
    /\ e \notin failedEnvs
    /\ e \notin droppedEnvs

C4_OfflineSubmissionOrder ==
    LET own == SelectSeq(brokerLog, LAMBDA e : e \in offlineSub)
    IN  \A i, j \in 1..Len(own) : i < j => own[i].seq < own[j].seq

\* positions of consume() at which the last register pass has been completed
PassCompleted ==
    apc \in {"connect", "pump", "drain", "invoke", "final", "finvoke", "done"}

\* C5: once connect() has returned for the (N+1)-th time, every handler given
\* to the constructor has been registered exactly N+1 times, and on every
\* connection these handlers are registered in the order of the handler list
C5_RegisteredPerConnect ==
    /\ PassCompleted =>
           \A h \in Range(InitHandlers) : regTotal[h] = nConnects
    /\ IsPrefix(SelectSeqBy(regLog, Range(InitHandlers)), InitHandlers)

\* C5 witness: the initial connect and two reconnects are done
C5_Witness ==
    /\ apc = "pump"
    /\ nConnects = 3
    /\ \A h \in Range(InitHandlers) : regTotal[h] = 3
    /\ regLog = InitHandlers

\* C6: no handler is registered more than once on the same connection
C6_RegisterOncePerConnect ==
    \A h \in AllHandlers : Count(regLog, h) <= 1

\* the sleep intervals of the backoff law
BackoffLaw == <<1, 2, 4, 8, 16, 30, 30, 30, 30, 30>>

\* C7: the sleeps after consecutive failed connect attempts are 1, 2, 4, 8,
\* 16, 30, 30, ...; a successful connect starts the sequence again at 1; the
\* backoff value stays within 1..MAX_BACKOFF
C7_BackoffLaw ==
    /\ IsPrefix(sleeps, BackoffLaw)
    /\ backoff = BackoffLaw[Len(sleeps) + 1]
    /\ backoff \in 1..MAX_BACKOFF

\* C7 witness: after a reconnect, seven attempts in a row have failed
C7_Witness ==
    /\ nConnects >= 1
    /\ sleeps = <<1, 2, 4, 8, 16, 30, 30>>

\* C16: a channel_method call made on the consumer thread with wait=True
\* raises and leaves the outbound queue as it was; made with wait=False it
\* does not raise and appends its envelope, without an err_queue, to the
\* queue; the consumer thread never blocks on an err_queue of its own
C16_ActorCannotWait ==
    /\ actorCall.wait =>
           actorCall.raised /\ actorCall.after = actorCall.before
    /\ (actorCall # NoCall /\ ~actorCall.wait) =>
           /\ ~actorCall.raised
           /\ Len(actorCall.after) = Len(actorCall.before) + 1
           /\ IsPrefix(actorCall.before, actorCall.after)
           /\ actorCall.after[Len(actorCall.after)].prod = "actor"
           /\ ~actorCall.after[Len(actorCall.after)].wait
    /\ apc # "stuck"

\* C16 witness: after a wait=False call of the consumer thread has put an
\* envelope into the queue, a wait=True call has raised and the queue still
\* holds exactly that envelope
C16_Witness ==
    /\ actorCall.wait
    /\ actorCall.raised
    /\ nActorSub = 1
    /\ queue = <<ActorEnvelope(1, FALSE)>>
    /\ actorCall.before = queue

\* the first register pass has run to its end: a connection was made, the
\* out-channel was opened on it and every handler of the list was registered
FirstPassDone ==
    /\ nConnects >= 1
    /\ outChannel >= 1
    /\ \A h \in Range(handlers) : regTotal[h] >= 1
    /\ ~(nConnects = 1 /\ apc \in {"channel", "register"})

\* C18: a consume_in_thread call that has returned without an error has
\* returned after the first register pass was completed
C18_StartReturnsAfterFirstPass ==
    (startResult = "returned" \/ startAgain = "skipped") => FirstPassDone

\* C19: with connect_timeout = T the connect phase ends with the connection
\* error exactly when the sleeps since connect() was entered add up to more
\* than T after the sleep that follows a failed attempt, and goes on trying
\* otherwise; the caller of consume_in_thread is raised that error and no
\* other; without a timeout the connect phase never gives up. With T = 10
\* up to three refusals leave the connect phase running and the fourth ends
\* it, after sleeps of 1, 2, 4 and 8 seconds
C19_DeadlineLaw ==
    /\ connect_timeout = <<>> => error = "None" /\ startResult # "raised"
    /\ connect_timeout # <<>> =>
           /\ error = "AMQPConnectionError" <=>
                  (sleeps # <<>> /\ SumSeq(sleeps) > connect_timeout[1])
           /\ sleeps # <<>> => SumSeq(Front(sleeps)) <= connect_timeout[1]
           /\ error = "AMQPConnectionError" => apc = "dead" /\ connect_wait
           /\ startResult = "raised" => error = "AMQPConnectionError"
           /\ startResult = "returned" => nConnects >= 1
    /\ connect_timeout = <<DefaultConnectTimeout>> =>
           /\ (sleeps # <<>> /\ Len(sleeps) <= 3) =>
                  apc = "connect" /\ error = "None"
           /\ Len(sleeps) >= 4 =>
                  sleeps = <<1, 2, 4, 8>> /\ error = "AMQPConnectionError"

\* C19 witness: with the default timeout of 10 seconds the broker has refused
\* four attempts in a row and the caller of consume_in_thread was raised the
\* connection error
C19_Witness ==
    /\ connect_timeout = <<DefaultConnectTimeout>>
    /\ nConnects = 0
    /\ sleeps = <<1, 2, 4, 8>>
    /\ startResult = "raised"

\* the list s read cyclically from position k + 1 on
Rotation(s, k) == [i \in 1..Len(s) |-> s[((k + i - 1) % Len(s)) + 1]]

\* C20: the connect attempts of a client, the reconnects included, go through
\* the shuffled host list in order and start it again at its end: the first
\* attempts target hosts[1], hosts[2], ..., and any Len(hosts) attempts in a
\* row target the list read cyclically from some position, so they name
\* every host once
C20_HostsWalkedCyclically ==
    /\ Len(lastHosts) < Len(hosts) => IsPrefix(lastHosts, hosts)
    /\ Len(lastHosts) = Len(hosts) =>
           /\ \E k \in 0..(Len(hosts) - 1) : lastHosts = Rotation(hosts, k)
           /\ Cardinality(Range(lastHosts)) = Len(hosts)
    /\ Len(lastHosts) <= Len(hosts)

\* C20 witness: on a shuffled list of three hosts the first connection was
\* made at the second attempt and the second connection at the fourth one,
\* which went back to the head of the list
C20_Witness ==
    /\ hosts = <<2, 3, 1>>
    /\ nConnects = 2
    /\ lastHosts = <<3, 1, 2>>
    /\ hostPos = 2

\* C21: once close() has set _closed the flag stays set, whatever the actor
\* does afterwards, so that the actor leaves its loop and close(wait=True)
\* can return
C21_ClosedStaysSet == [][closed => closed']_vars

\* C22: once the actor has left the pump loop, because _closed was set or
\* because of ChannelClosed, it goes through the final drain and ends in no
\* other way than by closing the broker connection
C22_ConnectionClosedOnExit ==
    [][(apc \in {"final", "finvoke"} /\ apc' \notin {"final", "finvoke"}) =>
           (apc' = "done" /\ ~connAlive')]_vars

\* positions of consume() behind the pump loop
PostLoop == {"final", "finvoke", "done", "dead"}

\* C23: an invocation in the pump loop that raises ChannelClosed ends the
\* loop, and an actor that has left the loop never connects or registers
\* again; ConnectionClosed in the loop clears connect_wait and enters
\* connect() with no connection stored, and whenever the loop drains it uses
\* the out-channel of the connection made last
C23_ChannelClosedTerminal ==
    [][/\ (apc = "invoke" /\ failedEnvs' # failedEnvs) => apc' \in PostLoop
       /\ apc \in PostLoop =>
              /\ apc' \in PostLoop
              /\ nConnects' = nConnects
              /\ regTotal' = regTotal
       /\ (apc \in {"pump", "invoke"} /\ apc' = "connect") =>
              (~connect_wait' /\ pika' = 0)
       /\ apc' \in {"drain", "invoke"} =>
              (outChannel' = pika' /\ pika' = nConnects')]_vars

\* C23 witness: after a reconnect an invocation raised ChannelClosed, and the
\* actor has ended through the final drain without close() having been called
C23_Witness ==
    /\ apc = "done"
    /\ ~closed
    /\ nConnects >= 2
    /\ failedEnvs # {}

\* the caller of envelope e is still blocked on the err_queue of e
BlockedOn(e) ==
    /\ ppc[e.prod] = "waiting"
    /\ nsub[e.prod] = e.seq
    /\ errq[e.prod] = <<>>

\* C24: when ChannelClosed has ended the loop and the thread has ended, no
\* caller that was waiting for a reply at the moment of the ChannelClosed,
\* its envelope being invoked or still queued, is left blocked
C24_WaitersSurfaced ==
    apc \in {"done", "dead"} => \A e \in breakWaiters : ~BlockedOn(e)

\* the places an envelope handed to the queue can be in
Accounted ==
    Range(queue) \cup {cur} \cup Range(brokerLog) \cup failedEnvs
        \cup droppedEnvs

\* C25: a wait with a finite timeout that finds no reply raises in the caller
\* and leaves the queue as it is: the envelope of a caller that timed out is
\* still queued, being invoked, or was invoked later, and a reply put on its
\* err_queue is never taken from it
C25_TimedOutNotWithdrawn ==
    [][\A p \in Producers :
           /\ (ppc[p] = "waiting" /\ ppc'[p] = "timedout") =>
                  (errq[p] = <<>> /\ queue' = queue /\ cur' = cur)
           /\ ppc'[p] = "timedout" => Envelope(p, nsub'[p]) \in Accounted'
           /\ ppc[p] = "timedout" =>
                  (ppc'[p] = "timedout" /\ IsPrefix(errq[p], errq'[p]))]_vars

\* C25 witness: the caller timed out, the actor invoked its envelope on a
\* later drain, and the reply lies on the err_queue
C25_Witness ==
    /\ ppc["p1"] = "timedout"
    /\ Envelope("p1", nsub["p1"]) \in Range(brokerLog)
    /\ errq["p1"] = <<"None">>

\* C26: every call on the broker connection or its channels is made by the
\* consumer thread: a register call that goes through is a step of its loop
\* over the handlers, never a step of the thread inside add_handler
C26_OnlyActorTouchesBroker ==
    [][regTotal' # regTotal =>
           (apc = "register" /\ regIdx' = regIdx + 1 /\ hpc' = hpc)]_vars

\* C27: whatever the interleaving of the consume_in_thread() calls of
\* several threads, no more than one thread is ever created for consume()
C27_AtMostOneActor == nThreads <= 1

\* a close() call of the publisher has returned
CloseReturned == \E k \in Closers : clpc[k] \in {"returned", "noop"}

\* C28: once a close() of the publisher has returned _is_closed is set; a
\* publish_message call made from then on raises the closed-client error,
\* whatever its message_type, and puts no envelope into the queue; a close()
\* call made from then on returns at once, and the connection is closed by
\* no other call than one that found _is_closed unset
C28_ClosedPublisher ==
    [][/\ CloseReturned' => is_closed'
       /\ \A p \in Producers :
              (CloseReturned /\ ppc[p] = "idle" /\
                   <<ppc[p], mres[p], mkind[p]>>' # <<ppc[p], mres[p], mkind[p]>>) =>
                  /\ mres'[p] = "ClosedAMQPClientException"
                  /\ ppc'[p] = "idle"
                  /\ queue' = queue
                  /\ nsub' = nsub
       /\ \A k \in Closers :
              /\ (CloseReturned /\ clpc[k] = "idle" /\ clpc'[k] # "idle") =>
                     clpc'[k] = "noop"
              /\ clpc[k] = "noop" => clpc'[k] = "noop"
       /\ nConnClose' # nConnClose =>
              \E k \in Closers : clpc[k] = "close" /\ clpc'[k] # "close"]_vars

\* C28 witness: close() has returned after closing the connection once, a
\* second close() was a no-op, and publish_message calls of both kinds of
\* handler were raised the closed-client error
C28_Witness ==
    /\ \E k \in Closers : clpc[k] = "returned"
    /\ \E k \in Closers : clpc[k] = "noop"
    /\ nConnClose = 1
    /\ mres = [p \in Producers |-> "ClosedAMQPClientException"]
    /\ mkind["p1"] = "hook"
    /\ mkind["p2"] = "log"
    /\ brokerLog # <<>>

\* C29: with no close() call, an actor that has made a connection and lost
\* it in the pump loop goes on trying to reconnect for as long as the broker
\* refuses: its reconnect never ends with the connection error
C29_ReconnectNeverGivesUp == nConnects >= 1 => error = "None"

\* C30: when the invocation of an envelope in the pump loop raises an
\* exception that is neither ChannelClosed nor ConnectionClosed, the error is
\* put on the err_queue of the envelope and the actor goes on with the drain
C30_OtherErrorsNotTerminal ==
    [][(apc = "invoke" /\ failedEnvs' # failedEnvs /\ apc' # "final") =>
           /\ errq' = PutErr(cur, "Exception")
           /\ apc' = "drain"]_vars

\* C31: a value is put on the err_queue of an envelope at most once, by the
\* invocation that takes the envelope out of the queue for good: None exactly
\* when that invocation has succeeded, the exception exactly when it has
\* failed with an error other than ConnectionClosed; an invocation that
\* raises ConnectionClosed, whether the envelope is put back or discarded,
\* puts nothing
C31_ErrQueueSingleUse ==
    [][/\ \A p \in Producers :
              Len(errq'[p]) > Len(errq[p]) =>
                  /\ cur.prod = p /\ cur.wait
                  /\ errq[p] = <<>> /\ Len(errq'[p]) = 1
                  /\ cur \notin Range(brokerLog) \cup failedEnvs
                  /\ cur \notin Range(queue')
                  /\ errq'[p][1] = "None" <=> brokerLog' = Append(brokerLog, cur)
                  /\ errq'[p][1] # "None" <=> cur \in failedEnvs'
       /\ (cur # NoEnv /\ cur \in Range(queue')) => errq' = errq
       /\ droppedEnvs' # droppedEnvs => errq' = errq]_vars

\* C31 witness: an envelope of the waiting producer was invoked after a
\* reconnect and its err_queue holds the one None of that invocation, while
\* an envelope of the other producer has failed
C31_Witness ==
    /\ errq["p1"] = <<"None">>
    /\ Envelope("p1", 1) \in Range(brokerLog)
    /\ nConnects >= 2
    /\ failedEnvs # {}

\* C32: the envelope in the hands of _process_publish is invoked on its own
\* channel if it carries one; otherwise it is invoked on the out-channel of
\* the connection made last, never on that of an earlier one, and
\* confirm_delivery() was called on that channel before
C32_TargetChannel ==
    apc \in {"invoke", "finvoke"} =>
        LET t == TargetChannel(cur, outChannel) IN
            /\ cur.channel # 0 => t = cur.channel
            /\ cur.channel = 0 =>
                   /\ t = nConnects
                   /\ t = pika
                   /\ t \in confirmOn

\* C32 witness: after a reconnect the broker has executed an envelope with no
\* channel and the actor is invoking one that carries its own channel
C32_Witness ==
    /\ apc = "invoke"
    /\ cur.channel = ConsumerChannel
    /\ nConnects >= 2
    /\ \E i \in 1..Len(brokerLog) : brokerLog[i].channel = 0
    /\ outChannel = nConnects

\* C38: no caller of a wait=True call without a timeout is left blocked for
\* good: while a caller waits on an empty err_queue its envelope has not been
\* discarded and the consumer thread has not ended
C38_NoCallerStranded ==
    \A p \in Producers :
        (ppc[p] = "waiting" /\ errq[p] = <<>>) =>
            /\ Envelope(p, nsub[p]) \notin droppedEnvs
            /\ apc \notin {"done", "dead"}

----------------------------------------------------------------------------
(* Properties of the TaskConsumer pool *)

\* C8: never more than threadpool_size worker threads are inside
\* _process_message; the live workers and the free slots together never
\* exceed the pool size
C8_PoolBound ==
    /\ Cardinality(Live) <= PoolSize
    /\ Cardinality(Live) + sem <= PoolSize
    /\ sem >= 0

\* C8 witness: every slot is in use while further deliveries wait in the
\* buffer and another one arrives
C8_Witness ==
    /\ Cardinality(Live) = PoolSize
    /\ tasks_buffer # <<>>
    /\ dpc = "append"

\* C9: whenever the semaphore is back at the pool size, no delivery is in the
\* buffer, on its way into the buffer, or being processed
C9_SemFullMeansDrained ==
    sem = PoolSize =>
        /\ tasks_buffer = <<>>
        /\ dpc # "append"
        /\ Live = {}

\* workers that may still take a task out of the buffer
BeforePop == {t \in Tags : wpc[t] \in {"start", "handle", "ack", "reply", "next"}}

\* C10: while no call of a worker has raised, a delivery in the task buffer
\* always has a running worker that has yet to look into the buffer, so it is
\* started without a further delivery
C10_BufferedHasTaker ==
    (\A t \in Tags : wpc[t] # "died") =>
        (tasks_buffer # <<>> => BeforePop # {})

\* C11: with late_ack set, the basic_ack envelope of a delivery is handed to
\* the connection only after handle_task for that delivery has returned or
\* raised: no acked delivery is still waiting for, or inside, handle_task
C11_LateAckAfterHandle ==
    late_ack =>
        \A t \in ackEnqueued :
            wpc[t] \notin {"none", "unparsed", "buffered", "start", "handle"}

\* C11 witness: with late_ack set one delivery has been handled and acked
\* while another one is inside handle_task and not acked
C11_Witness ==
    /\ late_ack
    /\ \E t \in ackEnqueued : wpc[t] = "end"
    /\ \E t \in Tags : wpc[t] = "handle" /\ t \notin ackEnqueued

\* C17: the step in which process() is handed a body that is not valid JSON
\* changes neither the semaphore nor the task buffer nor the set of running
\* workers, and hands no ack envelope to the connection; such a delivery is
\* never acked, buffered or given a worker later either
C17_BadJsonDropped ==
    [][\A t \in Tags :
          /\ (wpc[t] # "unparsed" /\ wpc'[t] = "unparsed") =>
                 /\ sem' = sem
                 /\ tasks_buffer' = tasks_buffer
                 /\ Live' = Live
                 /\ ackEnqueued' = ackEnqueued
          /\ wpc[t] = "unparsed" =>
                 /\ wpc'[t] = "unparsed"
                 /\ t \notin ackEnqueued'
                 /\ t \notin Range(tasks_buffer')]_vars

\* C17 witness: a body that is not valid JSON was delivered while every slot
\* was in use and another delivery waited in the buffer; later deliveries
\* have been acked
C17_Witness ==
    /\ \E t \in Tags : wpc[t] = "unparsed" /\ \E u \in ackEnqueued : u > t
    /\ sem = 0
    /\ tasks_buffer # <<>>

\* C33: with late_ack unset a worker enters handle_task for its delivery from
\* nowhere but the wait on the err_queue of its basic_ack envelope, and only
\* when the connection thread has invoked that envelope with success; while
\* the ack is queued or has failed the worker has no result
C33_AckBeforeHandle ==
    [][~late_ack =>
           \A t \in Tags :
               /\ (wpc[t] # "handle" /\ wpc'[t] = "handle") =>
                      /\ wpc[t] = "eackwait"
                      /\ callState[t] = "ok"
                      /\ t \in ackEnqueued
               /\ wpc'[t] = "eackwait" => result'[t] = "none"
               /\ result'[t] # "none" => t \in ackEnqueued']_vars

\* C33 witness: with late_ack unset one worker is inside handle_task after
\* its ack was invoked, while the ack of another is still queued
C33_Witness ==
    /\ ~late_ack
    /\ \E t, u \in Tags :
           /\ wpc[t] = "handle" /\ t \in ackEnqueued
           /\ wpc[u] = "eackwait" /\ callState[u] = "queued"

Started == {t \in Tags : wpc[t] \in LivePcs \cup {"end", "died"}}

\* C36: no delivery is given a worker while a delivery that arrived before
\* it waits in the task buffer
C36_FifoAdmission ==
    \A t \in Range(tasks_buffer) : \A u \in Started : u < t

\* C37: the semaphore and the live workers always add up to the pool size,
\* also after an ack or a reply publish has raised in a worker
C37_NoSlotLeak == sem + Cardinality(Live) = PoolSize

----------------------------------------------------------------------------
(* Properties of the request/response handlers *)

\* C12: whatever the order in which the responses of concurrent blocking
\* publish calls are delivered, a call that returns has the response that
\* carries its own correlation id, and once every call has returned the
\* table _response_queues is empty
C12_OwnReplyAndEmptyTable ==
    /\ \A k \in Calls :
           bpc[k] = "returned" => bres[k].corr = k /\ bres[k].n >= 1
    /\ (\A k \in Calls : bpc[k] = "returned") => DOMAIN response_queues = {}

\* C12 witness: call 1 has returned its own response, which was delivered
\* after the response of call 2, while call 2 has yet to pick up its own
C12_Witness ==
    /\ bpc[1] = "returned"
    /\ bres[1].corr = 1
    /\ bpc[2] = "get"
    /\ response_queues[2] # <<>>
    /\ Head(response_queues[2]).n < bres[1].n

\* C13: a blocking publish call that ends with the no-response error had a
\* finite timeout, its request was published, no response was handed to it,
\* and its correlation id is no longer in _response_queues
C13_TimeoutRemovesEntry ==
    \A k \in Calls :
        bpc[k] = "noresponse" =>
            /\ btimeout[k]
            /\ bres[k] = NoResponse
            /\ k \notin DOMAIN response_queues

\* C13 witness: a call with a finite timeout has ended with the no-response
\* error while the other call is still waiting for its response
C13_Witness ==
    /\ bpc[1] = "noresponse"
    /\ bpc[2] = "get"
    /\ DOMAIN response_queues = {2}

\* C14: once every blocking publish call has returned or raised, whichever
\* way it ended, _response_queues is empty
C14_EntryRemovedOnEveryExit ==
    (\A k \in Calls : bpc[k] \in {"idle", "returned", "noresponse", "raised"})
        => DOMAIN response_queues = {}

\* C15: the callback of a correlation id is called at most once, and once it
\* has been called the id is no longer in _callbacks
C15_CallbackEntryRemoved ==
    \A k \in Calls :
        /\ cbInvoked[k] <= 1
        /\ cbInvoked[k] >= 1 => k \notin callbacks

\* C39: the lookup that follows the membership test in process() never
\* raises KeyError, whatever the publish calls do between the two
C39_NoMissingKey == ~keyError

\* C40: once the thread started by consume_in_thread has ended while the
\* caller still waits in wait_for_event, the connected event is set, so that
\* the caller is unblocked
C40_StartUnblocked == (apc = "dead" /\ spc = "wait") => connect_wait

====
